---------------------------- MODULE Spec2Model ----------------------------
(***************************************************************************)
(* Ultimate History tools: the date codec, the reference codec and the     *)
(* reference validator, modelled from src/tools.                           *)
(*                                                                         *)
(* Text is modelled by TLA+ strings, read one character at a time with     *)
(* SubSeq.  Two characters of the source cannot be written in a TLA+       *)
(* string and are replaced one for one: the en dash U+2013 by "~" and the  *)
(* em dash U+2014 by "=".  The hyphen-minus stays "-".  Python's None in a  *)
(* place that otherwise holds text is the string None below, which no      *)
(* input contains.                                                         *)
(***************************************************************************)
EXTENDS Integers, Sequences, FiniteSets, TLC

VARIABLES
    pc,           \* position of the run
    year,         \* date codec: the year handed to format_date
    approximate,  \* date codec: the approximate flag handed to format_date
    date_str,     \* date codec: the text handed to parse_date
    parsed,       \* date codec: what parse_date returned
    formatted,    \* date codec: what format_date returned for `parsed`
    ref,          \* reference codec: the tuple handed to format_reference
    ref_text,     \* reference codec: the text handed to parse_reference
    decoded,      \* reference codec: what parse_reference returned
    person_rows,  \* store: the rows of the Person table
    event_rows,   \* store: the rows of the Event table
    people,       \* ReferenceValidator.people, in insertion order
    events,       \* ReferenceValidator.events, in insertion order
    errors,       \* ReferenceValidator.errors
    field,        \* the text of the reference field under validation
    fix,          \* what validate_person/event_reference returned
    auto_fix,     \* a validator run: whether --auto-fix was given
    exit_code,    \* a validator run: the exit code, None while it runs
    data_file,    \* format validator: the CSV file in the data directory
    data_read,    \* format validator: the file as the fix run read it
    fmt_errors,   \* FormatValidator.errors
    graph_tables, \* relationship graph: the rows of person.csv, event.csv, qa.csv, cloze.csv
    notes,        \* RelationshipAnalyzer.notes, in insertion order
    incoming,     \* RelationshipAnalyzer.incoming_relationships, in the order appended
    resolves,     \* relationship graph: calls of resolve_relationship_guids so far
    edits,        \* relationship graph: edits of the tables so far
    tag_name,     \* tags: the tag handed to validate_tag or create_tag
    entity_tags,  \* tags: the tags handed to create_person
    db,           \* tags: the Tag and Person nodes and the HAS_TAG relationships of the database
    validity,     \* tags: what validate_tag returned
    stderr,       \* tags: the lines the commands have printed to sys.stderr
    data_dir,     \* fix run: the tables of the data directory as they are on disk
    all_fixes,    \* fix run: all_fixes of main(), the fixes of each table validated so far
    read_rows,    \* fix run: rows of apply_fixes, the rows held in memory
    file_pos      \* fix run: the position of the loop over the tables

dateVars == <<year, approximate, date_str, parsed, formatted>>
refVars == <<ref, ref_text, decoded>>
valVars == <<person_rows, event_rows, people, events, errors, field, fix>>
runVars == <<auto_fix, exit_code>>
fmtVars == <<data_file, data_read, fmt_errors>>
graphVars == <<graph_tables, notes, incoming, resolves, edits>>
tagVars == <<tag_name, entity_tags, db, validity, stderr>>
ordVars == <<data_dir, all_fixes, read_rows, file_pos>>
extVars == <<runVars, fmtVars, graphVars, tagVars, ordVars>>
vars == <<pc, dateVars, refVars, valVars, extVars>>

---------------------------------------------------------------------------
(* Bounds of the model                                                     *)

MaxYearDigits == 6
MaxBodyLen == 5
MaxPieces == 4
MaxRows == 2
MaxResolves == 2
MaxEdits == 1
MaxCandidates == 3
MaxCells == 2
MaxPersonSlots == 3
MaxEventSlots == 2
MaxPersons == 3

---------------------------------------------------------------------------
(* Text helpers: Python's str methods                                      *)

None == "<None>"
EnDash == "~"
EmDash == "="

Char(s, i) == SubSeq(s, i, i)

IsSpace(c) == c = " "

DigitChars == "0123456789"

IsDigit(c) == \E i \in 1..10 : Char(DigitChars, i) = c

DigitVal(c) == (CHOOSE i \in 1..10 : Char(DigitChars, i) = c) - 1

RECURSIVE lstrip(_)
lstrip(s) ==
    IF Len(s) > 0 /\ IsSpace(Head(s)) THEN lstrip(Tail(s)) ELSE s

RECURSIVE rstrip(_)
rstrip(s) ==
    IF Len(s) > 0 /\ IsSpace(Char(s, Len(s)))
    THEN rstrip(SubSeq(s, 1, Len(s) - 1))
    ELSE s

strip(s) == rstrip(lstrip(s))

startswith(s, p) == Len(s) >= Len(p) /\ SubSeq(s, 1, Len(p)) = p

endswith(s, p) == Len(s) >= Len(p) /\ SubSeq(s, Len(s) - Len(p) + 1, Len(s)) = p

Contains(s, sub) ==
    \E i \in 1..(Len(s) - Len(sub) + 1) : SubSeq(s, i, i + Len(sub) - 1) = sub

\* s.replace(c, "") for a single character c
RECURSIVE RemoveChar(_, _)
RemoveChar(s, c) ==
    IF Len(s) = 0 THEN ""
    ELSE (IF Head(s) = c THEN "" ELSE Head(s)) \o RemoveChar(Tail(s), c)

\* all strings over the characters of set A, of length at most n
RECURSIVE Strs(_, _)
Strs(A, n) ==
    IF n = 0 THEN {""}
    ELSE LET S == Strs(A, n - 1) IN S \cup {s \o c : s \in S, c \in A}

---------------------------------------------------------------------------
(* Date codec                                                              *)

\* str(n) for n >= 0
RECURSIVE StrOfNat(_)
StrOfNat(n) ==
    IF n < 10 THEN Char(DigitChars, n + 1)
    ELSE StrOfNat(n \div 10) \o Char(DigitChars, (n % 10) + 1)

\* the "," format option applied to a digit string: groups of three from the right
RECURSIVE GroupThousands(_)
GroupThousands(ds) ==
    IF Len(ds) <= 3 THEN ds
    ELSE GroupThousands(SubSeq(ds, 1, Len(ds) - 3))
             \o "," \o SubSeq(ds, Len(ds) - 2, Len(ds))

\* value of a string of digits and single underscores, as int() reads it
RECURSIVE DigitsValue(_, _)
DigitsValue(ds, acc) ==
    IF Len(ds) = 0 THEN acc
    ELSE IF Head(ds) = "_" THEN DigitsValue(Tail(ds), acc)
    ELSE DigitsValue(Tail(ds), acc * 10 + DigitVal(Head(ds)))

\* int(text): surrounding whitespace, an optional sign, digits with single
\* underscores between them; anything else raises ValueError
PyInt(text) ==
    LET t == strip(text)
        signed == Len(t) > 0 /\ Head(t) \in {"+", "-"}
        body == IF signed THEN Tail(t) ELSE t
        ok == /\ Len(body) > 0
              /\ \A i \in 1..Len(body) : IsDigit(Char(body, i)) \/ Char(body, i) = "_"
              /\ IsDigit(Head(body))
              /\ IsDigit(Char(body, Len(body)))
              /\ ~Contains(body, "__")
        v == DigitsValue(body, 0)
    IN IF ~ok THEN <<"ValueError">>
       ELSE <<"ok", IF signed /\ Head(t) = "-" THEN -v ELSE v>>

\* parse_date: <<"ok", year, approximate>>, <<"none">> for (None, None),
\* <<"ValueError">> when int() raises
parse_date(text) ==
    IF Len(strip(text)) = 0 THEN <<"none">>
    ELSE LET s0 == strip(text)
             approx == startswith(s0, "c. ")
             s1 == IF approx THEN SubSeq(s0, 4, Len(s0)) ELSE s0
             s2 == RemoveChar(s1, ",")
             bce == endswith(s2, " BCE")
             s3 == IF bce THEN SubSeq(s2, 1, Len(s2) - 4) ELSE s2
             n == PyInt(s3)
         IN IF n[1] # "ok" THEN <<"ValueError">>
            ELSE <<"ok", IF bce THEN -n[2] ELSE n[2], approx>>

Abs(n) == IF n < 0 THEN -n ELSE n

\* format_date without the BCE suffix
format_date_NoBCE(y, approx) ==
    LET abs_year == Abs(y)
        s0 == IF abs_year >= 10000 THEN GroupThousands(StrOfNat(abs_year))
              ELSE StrOfNat(abs_year)
    IN IF approx THEN "c. " \o s0 ELSE s0

\* format_date grouping from 1,000 up instead of from 10,000 up
format_date_Group1000(y, approx) ==
    LET s0 == IF Abs(y) >= 1000 THEN GroupThousands(StrOfNat(Abs(y)))
              ELSE StrOfNat(Abs(y))
        s1 == IF y < 0 THEN s0 \o " BCE" ELSE s0
    IN IF approx THEN "c. " \o s1 ELSE s1

\* format_date for a year that is not None
format_date(y, approx) ==
    LET bce == y < 0
        abs_year == Abs(y)
        s0 == IF abs_year >= 10000 THEN GroupThousands(StrOfNat(abs_year))
              ELSE StrOfNat(abs_year)
        s1 == IF bce THEN s0 \o " BCE" ELSE s0
    IN IF approx THEN "c. " \o s1 ELSE s1

\* format_date applied to what parse_date returned
format_parsed(p) ==
    IF p[1] = "none" THEN "" ELSE format_date(p[2], p[3])

---------------------------------------------------------------------------
(* Reference codec                                                         *)

IsDash(c) == c \in {EnDash, EmDash}

IsAnyDash(c) == c \in {EnDash, EmDash, "-"}

SetMax(S) == CHOOSE x \in S : \A y \in S : y <= x

SetMin(S) == CHOOSE x \in S : \A y \in S : x <= y

\* the first position from i on that holds no whitespace (the end of \s*)
RECURSIVE SkipSpaces(_, _)
SkipSpaces(s, i) ==
    IF i <= Len(s) /\ IsSpace(Char(s, i)) THEN SkipSpaces(s, i + 1) ELSE i

\* the matches of ":\s*" start at the colons
ColonStarts(s) == {i \in 1..Len(s) : Char(s, i) = ":"}

\* the matches of "[~=]\s+" start at the dashes that whitespace follows
DashStarts(s) ==
    {i \in 1..(Len(s) - 1) : IsDash(Char(s, i)) /\ IsSpace(Char(s, i + 1))}

\* the separator loop with the colon pattern alone
separator_match_ColonOnly(s) ==
    IF ColonStarts(s) # {}
    THEN LET i == SetMax(ColonStarts(s)) IN <<i, SkipSpaces(s, i + 1)>>
    ELSE <<0, 0>>

\* the separator loop taking the last match of either pattern
separator_match_LastOfAny(s) ==
    IF ColonStarts(s) \cup DashStarts(s) # {}
    THEN LET i == SetMax(ColonStarts(s) \cup DashStarts(s)) IN <<i, SkipSpaces(s, i + 1)>>
    ELSE <<0, 0>>

\* the separator loop of parse_reference: with the colon pattern first and
\* the dash pattern second, the last match of the first pattern that
\* matches at all; <<start, end>> with end the first position after the
\* match, <<0, 0>> when neither pattern matches
separator_match(s) ==
    IF ColonStarts(s) # {}
    THEN LET i == SetMax(ColonStarts(s)) IN <<i, SkipSpaces(s, i + 1)>>
    ELSE IF DashStarts(s) # {}
    THEN LET i == SetMax(DashStarts(s)) IN <<i, SkipSpaces(s, i + 1)>>
    ELSE <<0, 0>>

\* the position of the first ")" after position i, 0 when there is none
NextClose(s, i) ==
    LET C == {j \in (i + 1)..Len(s) : Char(s, j) = ")"}
    IN IF C = {} THEN 0 ELSE SetMin(C)

\* "\(([^)]+)\)" matches at i when a "(" is there and the next ")" is at
\* least two positions further on
ParenMatchAt(s, i) ==
    Char(s, i) = "(" /\ NextClose(s, i) >= i + 2

\* the last of the non-overlapping matches finditer yields scanning from
\* pos on; <<start, end>> of the whole match, `last` when none is left
RECURSIVE last_paren(_, _, _)
last_paren(s, pos, last) ==
    LET starts == {i \in pos..Len(s) : ParenMatchAt(s, i)}
    IN IF starts = {} THEN last
       ELSE LET i == SetMin(starts)
                j == NextClose(s, i)
            IN last_paren(s, j + 1, <<i, j>>)

HasDigit(s) == \E i \in 1..Len(s) : IsDigit(Char(s, i))

\* the positions at which "\s*[~=-]\s*" splits: one per dash of any kind
SplitDashes(s) == {i \in 1..Len(s) : IsAnyDash(Char(s, i))}

\* the first match instead of the last
paren_group_First(before_sep) ==
    LET starts == {i \in 1..Len(before_sep) : ParenMatchAt(before_sep, i)}
    IN IF starts = {} THEN <<0, 0>>
       ELSE <<SetMin(starts), NextClose(before_sep, SetMin(starts))>>

\* paren_matches[-1]: the group parse_reference reads the dates from,
\* <<0, 0>> when paren_matches is empty
paren_group(before_sep) == last_paren(before_sep, 1, <<0, 0>>)

\* parse_reference: <<name, date1, date2, relationship>>
parse_reference(raw) ==
    IF Len(strip(raw)) = 0 THEN <<"", None, None, None>>
    ELSE
    LET value == strip(raw)
        sep == separator_match(value)
        before_sep == IF sep[1] > 0 THEN strip(SubSeq(value, 1, sep[1] - 1))
                      ELSE value
        relationship == IF sep[1] > 0 THEN strip(SubSeq(value, sep[2], Len(value)))
                        ELSE None
        paren == paren_group(before_sep)
        dates_str == SubSeq(before_sep, paren[1] + 1, paren[2] - 1)
        dashes == SplitDashes(dates_str)
        d == SetMin(dashes)
    IN IF paren[1] = 0 THEN <<before_sep, None, None, relationship>>
       ELSE IF ~HasDigit(dates_str) THEN <<before_sep, None, None, relationship>>
       ELSE LET name == strip(SubSeq(before_sep, 1, paren[1] - 1))
            IN IF Cardinality(dashes) = 0
               THEN <<name, strip(dates_str), None, relationship>>
               ELSE IF Cardinality(dashes) = 1
               THEN <<name, strip(SubSeq(dates_str, 1, d - 1)),
                      strip(SubSeq(dates_str, d + 1, Len(dates_str))), relationship>>
               ELSE <<value, None, None, None>>

\* Python's truth of an Optional[str]
Truthy(x) == x # None /\ x # ""

\* format_reference writing the relationship after a spaced en dash
format_reference_DashSeparator(name, date1, date2, relationship) ==
    LET r1 == IF Truthy(date1)
              THEN IF Truthy(date2)
                   THEN name \o " (" \o date1 \o EnDash \o date2 \o ")"
                   ELSE name \o " (" \o date1 \o ")"
              ELSE name
    IN IF Truthy(relationship) THEN r1 \o " ~ " \o relationship ELSE r1

\* format_reference
format_reference(name, date1, date2, relationship) ==
    LET r1 == IF Truthy(date1)
              THEN IF Truthy(date2)
                   THEN name \o " (" \o date1 \o EnDash \o date2 \o ")"
                   ELSE name \o " (" \o date1 \o ")"
              ELSE name
    IN IF Truthy(relationship) THEN r1 \o ": " \o relationship ELSE r1

---------------------------------------------------------------------------
(* Name matching: difflib.SequenceMatcher(None, a, b).ratio()              *)

UpperChars == "ABCDEFGHIJKLMNOPQRSTUVWXYZ"
LowerChars == "abcdefghijklmnopqrstuvwxyz"

LowerChar(c) ==
    IF \E i \in 1..26 : Char(UpperChars, i) = c
    THEN Char(LowerChars, CHOOSE i \in 1..26 : Char(UpperChars, i) = c)
    ELSE c

RECURSIVE lower(_)
lower(s) == IF Len(s) = 0 THEN "" ELSE LowerChar(Head(s)) \o lower(Tail(s))

\* the length of the longest common prefix of a[i..ahi-1] and b[j..bhi-1]
RECURSIVE CommonPrefix(_, _, _, _, _, _)
CommonPrefix(a, i, ahi, b, j, bhi) ==
    IF i < ahi /\ j < bhi /\ Char(a, i) = Char(b, j)
    THEN 1 + CommonPrefix(a, i + 1, ahi, b, j + 1, bhi)
    ELSE 0

\* find_longest_match without junk: <<i, j, k>>, the longest block
\* a[i..i+k-1] = b[j..j+k-1] within the ranges, the one starting earliest
\* in a and, among those, earliest in b
find_longest_match(a, alo, ahi, b, blo, bhi) ==
    LET P == (alo..(ahi - 1)) \X (blo..(bhi - 1))
        L == [p \in P |-> CommonPrefix(a, p[1], ahi, b, p[2], bhi)]
        k == SetMax({L[p] : p \in P})
        i == SetMin({p[1] : p \in {q \in P : L[q] = k}})
        j == SetMin({p[2] : p \in {q \in P : L[q] = k /\ q[1] = i}})
    IN <<i, j, k>>

\* the total size of get_matching_blocks: the longest match, then the same
\* to its left and to its right
RECURSIVE matching_total(_, _, _, _, _, _)
matching_total(a, alo, ahi, b, blo, bhi) ==
    IF alo >= ahi \/ blo >= bhi THEN 0
    ELSE LET m == find_longest_match(a, alo, ahi, b, blo, bhi)
         IN IF m[3] = 0 THEN 0
            ELSE m[3] + matching_total(a, alo, m[1], b, blo, m[2])
                      + matching_total(a, m[1] + m[3], ahi, b, m[2] + m[3], bhi)

\* ratio() as the fraction <<numerator, denominator>>: 2.0 * matches / length,
\* 1.0 for two empty strings
ratio(a, b) ==
    IF Len(a) + Len(b) = 0 THEN <<1, 1>>
    ELSE <<2 * matching_total(a, 1, Len(a) + 1, b, 1, Len(b) + 1), Len(a) + Len(b)>>

RatGT(x, y) == x[1] * y[2] > y[1] * x[2]

RatGE(x, y) == x[1] * y[2] >= y[1] * x[2]

\* self.fuzzy_threshold = 0.8
fuzzy_threshold == <<4, 5>>

\* the loop of fuzzy_match over candidates.keys() from the k-th key on
RECURSIVE fuzzy_scan(_, _, _, _, _)
fuzzy_scan(name, candidates, k, best_match, best_ratio) ==
    IF k > Len(candidates) THEN best_match
    ELSE LET r == ratio(lower(name), lower(candidates[k].name))
         IN IF RatGT(r, best_ratio) /\ RatGE(r, fuzzy_threshold)
            THEN fuzzy_scan(name, candidates, k + 1, candidates[k].name, r)
            ELSE fuzzy_scan(name, candidates, k + 1, best_match, best_ratio)

\* fuzzy_match comparing the names without lower()
RECURSIVE fuzzy_scan_CaseSensitive(_, _, _, _, _)
fuzzy_scan_CaseSensitive(name, candidates, k, best_match, best_ratio) ==
    IF k > Len(candidates) THEN best_match
    ELSE LET r == ratio(name, candidates[k].name)
         IN IF RatGT(r, best_ratio) /\ RatGE(r, fuzzy_threshold)
            THEN fuzzy_scan_CaseSensitive(name, candidates, k + 1, candidates[k].name, r)
            ELSE fuzzy_scan_CaseSensitive(name, candidates, k + 1, best_match, best_ratio)

fuzzy_match_CaseSensitive(name, candidates) ==
    fuzzy_scan_CaseSensitive(name, candidates, 1, None, <<0, 1>>)

\* ReferenceValidator.fuzzy_match
fuzzy_match(name, candidates) == fuzzy_scan(name, candidates, 1, None, <<0, 1>>)

---------------------------------------------------------------------------
(* Reference validator                                                     *)

\* a dict keyed by name, as the sequence of its values in insertion order
DictHas(d, name) == \E k \in 1..Len(d) : d[k].name = name

DictGet(d, name) == d[CHOOSE k \in 1..Len(d) : d[k].name = name]

DictSet(d, rec) ==
    IF DictHas(d, rec.name)
    THEN [k \in 1..Len(d) |-> IF d[k].name = rec.name THEN rec ELSE d[k]]
    ELSE Append(d, rec)

\* text.strip() or None
StripOrNone(text) == IF Len(strip(text)) = 0 THEN None ELSE strip(text)

\* load_people / load_events: one entry per row, keyed by the stripped name;
\* date1 is birth or start, date2 is death or end
RECURSIVE load_rows(_, _)
load_rows(rows, d) ==
    IF Len(rows) = 0 THEN d
    ELSE load_rows(Tail(rows),
                   DictSet(d, [name |-> strip(Head(rows).name),
                               date1 |-> StripOrNone(Head(rows).date1),
                               date2 |-> StripOrNone(Head(rows).date2),
                               guid |-> Head(rows).guid]))

\* re.sub(r"\s+", " ", text)
RECURSIVE CollapseSpaces(_)
CollapseSpaces(s) ==
    IF Len(s) = 0 THEN ""
    ELSE IF IsSpace(Head(s))
    THEN " " \o CollapseSpaces(lstrip(s))
    ELSE Head(s) \o CollapseSpaces(Tail(s))

\* check_format comparing the text as it stands
check_format_Exact(value, name, date1, date2, relationship) ==
    value = format_reference(name, date1, date2, relationship)

\* check_format
check_format(value, name, date1, date2, relationship) ==
    LET expected == format_reference(name, date1, date2, relationship)
        normalized_value == CollapseSpaces(strip(value))
        normalized_expected == CollapseSpaces(strip(expected))
    IN IF /\ Truthy(relationship)
          /\ Contains(normalized_value, " " \o EnDash \o " ")
          /\ ~Contains(normalized_value, ": ")
       THEN FALSE
       ELSE normalized_value = normalized_expected

ValidationError(csv_file, row_num, column, error_type, message, current_value, suggested_fix) ==
    [csv_file |-> csv_file, row_num |-> row_num, column |-> column,
     error_type |-> error_type, message |-> message,
     current_value |-> current_value, suggested_fix |-> suggested_fix]

\* the test that classifies a reference as unparseable
looks_unparseable(name, value) ==
    /\ name = value
    /\ Contains(value, "(")
    /\ Contains(value, ")")
    /\ \/ Contains(value, " " \o EnDash \o " ")
       \/ Contains(value, " " \o EmDash \o " ")

\* self.errors.append(ValidationError(...)) followed by the return of the
\* suggested fix: [errors |-> self.errors afterwards, fix |-> the value returned]
report(errs, csv_file, row_num, column, error_type, message, value, suggested_fix) ==
    [errors |-> Append(errs, ValidationError(csv_file, row_num, column, error_type,
                                             message, value, suggested_fix)),
     fix |-> suggested_fix]

\* the branch of an exact match, e the entity of that name
validate_exact(errs, csv_file, row_num, column, value, name, date1, date2, relationship, e) ==
    IF e.date1 # date1 \/ e.date2 # date2
    THEN report(errs, csv_file, row_num, column, "date_mismatch",
                "Dates don't match for '" \o name \o "'", value,
                format_reference(name, e.date1, e.date2, relationship))
    ELSE IF ~check_format(value, name, date1, date2, relationship)
    THEN report(errs, csv_file, row_num, column, "format_issue",
                "Format doesn't match standard for '" \o name \o "'", value,
                format_reference(name, date1, date2, relationship))
    ELSE [errors |-> errs, fix |-> None]

\* the branch without exact match, match the result of fuzzy_match
validate_fuzzy(kind, known, errs, csv_file, row_num, column, value, name, relationship, match) ==
    IF Truthy(match)
    THEN report(errs, csv_file, row_num, column, "name_mismatch",
                "Name mismatch: '" \o name \o "' should be '" \o match \o "'", value,
                format_reference(match, DictGet(known, match).date1,
                                 DictGet(known, match).date2, relationship))
    ELSE report(errs, csv_file, row_num, column, "missing_" \o kind,
                (IF kind = "person" THEN "Person" ELSE "Event")
                    \o " not found: '" \o name \o "'", value, None)

\* the body after name, date1, date2, relationship = self.parse_reference(value)
validate_parsed(kind, known, errs, csv_file, row_num, column, value, name, date1, date2, relationship) ==
    IF name = "" THEN [errors |-> errs, fix |-> None]
    ELSE IF looks_unparseable(name, value)
    THEN report(errs, csv_file, row_num, column, "unparseable",
                "Cannot parse reference - please manually add colon separator", value, None)
    ELSE IF DictHas(known, name)
    THEN validate_exact(errs, csv_file, row_num, column, value, name, date1, date2,
                        relationship, DictGet(known, name))
    ELSE validate_fuzzy(kind, known, errs, csv_file, row_num, column, value, name,
                        relationship, fuzzy_match(name, known))

validate_decoded(kind, known, errs, csv_file, row_num, column, value, p) ==
    validate_parsed(kind, known, errs, csv_file, row_num, column, value, p[1], p[2], p[3], p[4])

\* validate_person_reference (kind "person", known = self.people) and
\* validate_event_reference (kind "event", known = self.events), which
\* differ in the dict, the finding kind and the messages only
validate_reference(kind, known, errs, csv_file, row_num, column, value) ==
    IF Len(strip(value)) = 0 THEN [errors |-> errs, fix |-> None]
    ELSE validate_decoded(kind, known, errs, csv_file, row_num, column, value,
                          parse_reference(value))

validate_person_reference(known, errs, csv_file, row_num, column, value) ==
    validate_reference("person", known, errs, csv_file, row_num, column, value)

\* validate_event_reference reporting as its person twin does
validate_event_reference_AsPerson(known, errs, csv_file, row_num, column, value) ==
    validate_reference("person", known, errs, csv_file, row_num, column, value)

validate_event_reference(known, errs, csv_file, row_num, column, value) ==
    validate_reference("event", known, errs, csv_file, row_num, column, value)

---------------------------------------------------------------------------
(* Inputs of the date codec                                                *)

YearDigitChars == {"0", "1", "7"}
BodyChars == {"0", "1", ","}

YearInputs ==
    LET mags == {PyInt(s)[2] : s \in Strs(YearDigitChars, MaxYearDigits) \ {""}}
                    \cup {1700000, 1842, 1760, 9999, 10000, 123456789}
    IN mags \cup {-m : m \in mags}

DatePrefixes == {"", "c. ", " c. ", "c.", "c.  "}
DateSuffixes == {"", " BCE", " B,CE", " BCE ", "BCE", " bce"}
DateBodies ==
    Strs(BodyChars, MaxBodyLen)
        \cup {"1,700,000", "1842", "1760", "10,000", "12,345", "123,456,789",
              "x", "1x", "-5", "+5", "1_0", "1 0", "1.5"}

TextInputs == {p \o b \o s : p \in DatePrefixes, b \in DateBodies, s \in DateSuffixes}

---------------------------------------------------------------------------
(* The date codec as a state machine: a value is formatted and parsed      *)
(* back, a text is parsed and formatted back.                              *)

DateIdle ==
    /\ year = 0
    /\ approximate = FALSE
    /\ date_str = None
    /\ parsed = <<"unset">>
    /\ formatted = None

RefIdle ==
    /\ ref = <<>>
    /\ ref_text = None
    /\ decoded = <<>>

ValIdle ==
    /\ person_rows = <<>>
    /\ event_rows = <<>>
    /\ people = <<>>
    /\ events = <<>>
    /\ errors = <<>>
    /\ field = None
    /\ fix = None

RunIdle ==
    /\ auto_fix = FALSE
    /\ exit_code = None

FmtIdle ==
    /\ data_file = None
    /\ data_read = None
    /\ fmt_errors = <<>>

GraphIdle ==
    /\ graph_tables = <<>>
    /\ notes = <<>>
    /\ incoming = <<>>
    /\ resolves = 0
    /\ edits = 0

TagIdle ==
    /\ tag_name = None
    /\ entity_tags = <<>>
    /\ db = {}
    /\ validity = None
    /\ stderr = <<>>

OrdIdle ==
    /\ data_dir = <<>>
    /\ all_fixes = <<>>
    /\ read_rows = <<>>
    /\ file_pos = [validated |-> 0, applied |-> 0]

ExtIdle == RunIdle /\ FmtIdle /\ GraphIdle /\ TagIdle /\ OrdIdle

InitDate ==
    /\ ExtIdle
    /\ RefIdle
    /\ ValIdle
    /\ parsed = <<"unset">>
    /\ formatted = None
    /\ \/ /\ pc = "value"
          /\ year \in YearInputs
          /\ approximate \in BOOLEAN
          /\ date_str = None
       \/ /\ pc = "text"
          /\ date_str \in TextInputs
          /\ year = 0
          /\ approximate = FALSE

FormatValue ==
    /\ pc = "value"
    /\ date_str' = format_date(year, approximate)
    /\ pc' = "value_formatted"
    /\ UNCHANGED <<year, approximate, parsed, formatted, refVars, valVars, extVars>>

ParseBack ==
    /\ pc = "value_formatted"
    /\ parsed' = parse_date(date_str)
    /\ pc' = "value_done"
    /\ UNCHANGED <<year, approximate, date_str, formatted, refVars, valVars, extVars>>

ParseText ==
    /\ pc = "text"
    /\ parsed' = parse_date(date_str)
    /\ pc' = IF parsed'[1] = "ValueError" THEN "text_failed" ELSE "text_parsed"
    /\ UNCHANGED <<year, approximate, date_str, formatted, refVars, valVars, extVars>>

FormatBack ==
    /\ pc = "text_parsed"
    /\ formatted' = format_parsed(parsed)
    /\ pc' = "text_done"
    /\ UNCHANGED <<year, approximate, date_str, parsed, refVars, valVars, extVars>>

NextDate == FormatValue \/ ParseBack \/ ParseText \/ FormatBack

SpecDate == InitDate /\ [][NextDate]_vars

---------------------------------------------------------------------------
(* Inputs of the reference codec                                           *)

RefNames ==
    {"Ab", "Unification of Italy (Risorgimento)", "Ab (c)", "Apollo (11)",
     "Jean-Paul", "A: b", "A ~ b", "A~", "A (b", "A) b", " Ab", ""}

RefDates ==
    {None, "", "1848", "1871", "c. 5", "5 BCE", "1-2", "1~2", "x", "(1)", "1:2"}

RefDescs == {None, "", "led to", "a: b", "a ~ b", "see (1)", " x"}

RefTuples ==
    {<<n, d1, d2, r>> : n \in RefNames, d1 \in RefDates, d2 \in RefDates, r \in RefDescs}

RefPieces == {"A", " ", "(", ")", "1", ":", "~", "-"}

\* all concatenations of at most n pieces
RECURSIVE Concats(_, _)
Concats(P, n) ==
    IF n = 0 THEN {""}
    ELSE LET S == Concats(P, n - 1) IN S \cup {s \o x : s \in S, x \in P}

RefHeads ==
    {"Ab", "Unification of Italy (Risorgimento)", "Ab (c)", "A (b", "A ((b)"}

RefGroups ==
    {"", " (1848~1871)", " (1848-1871)", " (1848 = 1871)", "(1848)", " (c. 5 ~ 5 BCE)",
     " (1~2~3)", " (1--)", " (~1871)", " (x)", " ()", " (1848) x"}

RefSeps == {"", ": ", ":", " : ", " ~ ", " = ", "~ ", " - ", " ~"}

RefTails == {"", "led to", "a: b", "a ~ b", "(1)"}

RefTexts ==
    Concats(RefPieces, MaxPieces)
        \cup {h \o g \o p \o t : h \in RefHeads, g \in RefGroups, p \in RefSeps, t \in RefTails}

---------------------------------------------------------------------------
(* The reference codec as a state machine: a tuple is encoded and decoded  *)
(* back, a text is decoded.                                                *)

InitRef ==
    /\ ExtIdle
    /\ DateIdle
    /\ ValIdle
    /\ decoded = <<>>
    /\ \/ /\ pc = "tuple"
          /\ ref \in RefTuples
          /\ ref_text = None
       \/ /\ pc = "ref_text"
          /\ ref_text \in RefTexts
          /\ ref = <<>>

EncodeRef ==
    /\ pc = "tuple"
    /\ ref_text' = format_reference(ref[1], ref[2], ref[3], ref[4])
    /\ pc' = "encoded"
    /\ UNCHANGED <<ref, decoded, dateVars, valVars, extVars>>

DecodeBack ==
    /\ pc = "encoded"
    /\ decoded' = parse_reference(ref_text)
    /\ pc' = "tuple_done"
    /\ UNCHANGED <<ref, ref_text, dateVars, valVars, extVars>>

DecodeText ==
    /\ pc = "ref_text"
    /\ decoded' = parse_reference(ref_text)
    /\ pc' = "ref_text_done"
    /\ UNCHANGED <<ref, ref_text, dateVars, valVars, extVars>>

NextRef == EncodeRef \/ DecodeBack \/ DecodeText

SpecRef == InitRef /\ [][NextRef]_vars

---------------------------------------------------------------------------
(* Inputs of the reference validator: the two tables of the store and the  *)
(* text of one reference field                                             *)

Row(guid, name, date1, date2) ==
    [guid |-> guid, name |-> name, date1 |-> date1, date2 |-> date2]

PersonRowsA ==
    <<Row("p1", "Napoleon Bonaparte", "1769", "1821"),
      Row("p2", "Homer", "", "701"),
      Row("p3", " Ada ", "1815 ", ""),
      Row("p4", "Zoe", "", "")>>

EventRowsA ==
    <<Row("e1", "Rome (Fall)", "410", "476"),
      Row("e2", "Ice Age", "", "11700"),
      Row("e3", "Big Bang", "13", ""),
      Row("e4", "Zoe", "", "")>>

PersonRowsB ==
    <<Row("p1", "Nero", "37", "68"),
      Row("p2", "Neron", "1", "2"),
      Row("p3", "Nero (1-2-3) ~ x", "5", ""),
      Row("p4", "Nero", "37", "68")>>

EventRowsB ==
    <<Row("e1", "Sack", "410", ""),
      Row("e2", "Sack (1-2-3) ~ x", "", "")>>

Stores == {<<PersonRowsA, EventRowsA>>, <<PersonRowsB, EventRowsB>>, <<<<>>, <<>>>>}

\* a name with its last character replaced
Misspell(n) == SubSeq(n, 1, Len(n) - 1) \o "x"

NameVariants(n) == {n, Misspell(n), lower(n)}

\* the date groups tried for an entity of dates b and d
DateGroups(b, d) ==
    {"", " (1-2-3)", " (x)", " (9)", " (1~2)"}
        \cup (IF b # "" THEN {" (" \o b \o ")", "(" \o b \o ")"} ELSE {})
        \cup (IF d # "" THEN {" (" \o d \o ")", " (~" \o d \o ")"} ELSE {})
        \cup (IF b # "" /\ d # ""
              THEN {" (" \o b \o "~" \o d \o ")", " (" \o b \o "-" \o d \o ")",
                    " (" \o b \o " ~ " \o d \o ")", "  (" \o b \o "=" \o d \o ")",
                    " (" \o d \o "~" \o b \o ")"}
              ELSE {})

FieldRests ==
    {"", ": ally", ":ally", " ~ ally", " = ally", " - ally", ":", ": a ~ b", " ~ a: b", " "}

RowsOf(store) ==
    {store[1][k] : k \in 1..Len(store[1])} \cup {store[2][k] : k \in 1..Len(store[2])}
        \cup {Row("", "Name", "1800", "1850")}

FieldExamples ==
    {"Napolean Bonaparte (1769-1821): ally",
     "Name (1800~1850) ~ description",
     "Napoleon Bonaparte(1--) ~ x",
     "(1769~1821): ally",
     " ",
     ""}

FieldsFor(store) ==
    FieldExamples
        \cup UNION {{n \o g \o r : n \in NameVariants(strip(w.name)),
                                   g \in DateGroups(strip(w.date1), strip(w.date2)),
                                   r \in FieldRests} : w \in RowsOf(store)}

CsvFile == "Ultimate History | Person.csv"
RowNum == 2

---------------------------------------------------------------------------
(* The reference validator as a state machine: main() loads the two        *)
(* tables, then one reference field is validated as a person reference or  *)
(* as an event reference.                                                  *)

InitVal ==
    /\ ExtIdle
    /\ DateIdle
    /\ RefIdle
    /\ pc = "start"
    /\ \E store \in Stores :
           /\ person_rows = store[1]
           /\ event_rows = store[2]
           /\ field \in FieldsFor(store)
    /\ people = <<>>
    /\ events = <<>>
    /\ errors = <<>>
    /\ fix = None

LoadPeople ==
    /\ pc = "start"
    /\ people' = load_rows(person_rows, people)
    /\ pc' = "people_loaded"
    /\ UNCHANGED <<person_rows, event_rows, events, errors, field, fix, dateVars, refVars, extVars>>

LoadEvents ==
    /\ pc = "people_loaded"
    /\ events' = load_rows(event_rows, events)
    /\ pc' = "loaded"
    /\ UNCHANGED <<person_rows, event_rows, people, errors, field, fix, dateVars, refVars, extVars>>

ValidatePerson ==
    /\ pc = "loaded"
    /\ LET r == validate_person_reference(people, errors, CsvFile, RowNum,
                                          "related person 1", field)
       IN errors' = r.errors /\ fix' = r.fix
    /\ pc' = "validated_person"
    /\ UNCHANGED <<person_rows, event_rows, people, events, field, dateVars, refVars, extVars>>

ValidateEvent ==
    /\ pc = "loaded"
    /\ LET r == validate_event_reference(events, errors, CsvFile, RowNum,
                                         "related event 1", field)
       IN errors' = r.errors /\ fix' = r.fix
    /\ pc' = "validated_event"
    /\ UNCHANGED <<person_rows, event_rows, people, events, field, dateVars, refVars, extVars>>

NextVal == LoadPeople \/ LoadEvents \/ ValidatePerson \/ ValidateEvent

SpecVal == InitVal /\ [][NextVal]_vars

---------------------------------------------------------------------------
(* Format validator (validate_format.py)                                   *)
(*                                                                         *)
(* A CSV file is its name, the quoting its writer used ("all" for          *)
(* QUOTE_ALL, "minimal" for the csv default, "nonempty" for a file whose   *)
(* empty fields alone are written without quotes) and its rows; a row maps *)
(* each column of fieldnames to the text of its cell.  The lines of the    *)
(* file are those the writer produces for the rows.                        *)

\* the characters of the texts in code point order; "=" and "~" are left
\* out because they stand for the dashes U+2014 and U+2013
CodePoints ==
    " !\"#$%&'()*+,-./0123456789:;<>?@ABCDEFGHIJKLMNOPQRSTUVWXYZ[]^_abcdefghijklmnopqrstuvwxyz{|}"

\* the rank of a character in code point order
ord(c) ==
    IF c = EnDash THEN Len(CodePoints) + 1
    ELSE IF c = EmDash THEN Len(CodePoints) + 2
    ELSE CHOOSE i \in 1..Len(CodePoints) : Char(CodePoints, i) = c

\* a < b for str
RECURSIVE StrLT(_, _)
StrLT(a, b) ==
    IF Len(b) = 0 THEN FALSE
    ELSE IF Len(a) = 0 THEN TRUE
    ELSE IF Head(a) = Head(b) THEN StrLT(Tail(a), Tail(b))
    ELSE ord(Head(a)) < ord(Head(b))

\* the stable sort of <<key, item>> pairs by key
RECURSIVE insert_pair(_, _)
insert_pair(ps, x) ==
    IF Len(ps) = 0 THEN <<x>>
    ELSE IF StrLT(x[1], Head(ps)[1]) THEN <<x>> \o ps
    ELSE <<Head(ps)>> \o insert_pair(Tail(ps), x)

RECURSIVE sort_pairs(_)
sort_pairs(ps) ==
    IF Len(ps) = 0 THEN <<>>
    ELSE insert_pair(sort_pairs(SubSeq(ps, 1, Len(ps) - 1)), ps[Len(ps)])

Items(ps) == [k \in 1..Len(ps) |-> ps[k][2]]

\* sorted(texts)
sorted(texts) == Items(sort_pairs([k \in 1..Len(texts) |-> <<texts[k], texts[k]>>]))

\* sorted(texts, key=str.lower)
sorted_lower(texts) ==
    Items(sort_pairs([k \in 1..Len(texts) |-> <<lower(texts[k]), texts[k]>>]))

\* s.split(c) for a single character c
RECURSIVE split(_, _)
split(s, c) ==
    IF ~Contains(s, c) THEN <<s>>
    ELSE LET i == SetMin({k \in 1..Len(s) : Char(s, k) = c})
         IN <<SubSeq(s, 1, i - 1)>> \o split(SubSeq(s, i + 1, Len(s)), c)

\* sep.join(texts)
RECURSIVE join(_, _)
join(texts, sep) ==
    IF Len(texts) = 0 THEN ""
    ELSE IF Len(texts) = 1 THEN texts[1]
    ELSE texts[1] \o sep \o join(Tail(texts), sep)

\* text[:n]
Prefix(text, n) == SubSeq(text, 1, IF Len(text) < n THEN Len(text) ELSE n)

\* the list with its blank texts kept
nonempty_KeepBlank(texts) == texts

\* [x for x in texts if x.strip()]
RECURSIVE nonempty(_)
nonempty(texts) ==
    IF Len(texts) = 0 THEN <<>>
    ELSE (IF Len(strip(Head(texts))) > 0 THEN <<Head(texts)>> ELSE <<>>)
             \o nonempty(Tail(texts))

person_cols ==
    <<"related person 1", "related person 2", "related person 3",
      "related person 4", "related person 5">>

event_cols ==
    <<"related event 1", "related event 2", "related event 3",
      "related event 4", "related event 5">>

\* reader.fieldnames
fieldnames == <<"guid", "name", "tags">> \o person_cols \o event_cols

Cells(row, cols) == [k \in 1..Len(cols) |-> row[cols[k]]]

\* the csv writer's text of one field
RECURSIVE DoubleQuotes(_)
DoubleQuotes(text) ==
    IF Len(text) = 0 THEN ""
    ELSE (IF Head(text) = "\"" THEN "\"\"" ELSE Head(text)) \o DoubleQuotes(Tail(text))

write_field(text, quoting) ==
    IF quoting = "all" \/ Contains(text, ",") \/ Contains(text, "\"")
           \/ (quoting = "nonempty" /\ Len(text) > 0)
    THEN "\"" \o DoubleQuotes(text) \o "\""
    ELSE text

write_line(texts, quoting) ==
    join([k \in 1..Len(texts) |-> write_field(texts[k], quoting)], ",")

\* f.readlines() of the file: the header line and one line per row
readlines(file) ==
    <<write_line(fieldnames, file.quoting)>>
        \o [k \in 1..Len(file.rows) |-> write_line(Cells(file.rows[k], fieldnames), file.quoting)]

\* the while loop of check_quoting over one stripped line, from position i:
\* whether the line has a field that does not start with a quote.  A run of
\* characters that leaves in_quote and field_start as they are is passed in
\* one step: the whitespace before a field, the text of a quoted field up to
\* its next quote, the text after a closing quote up to the next comma.
RECURSIVE has_unquoted_field(_, _, _, _)
has_unquoted_field(stripped, i, in_quote, field_start) ==
    IF i > Len(stripped) THEN FALSE
    ELSE IF field_start
    THEN LET j == SkipSpaces(stripped, i)
         IN IF j > Len(stripped) THEN FALSE
            ELSE IF Char(stripped, j) = "\""
            THEN has_unquoted_field(stripped, j + 1, TRUE, FALSE)
            ELSE IF Char(stripped, j) = "," /\ ~in_quote
            THEN has_unquoted_field(stripped, j + 1, in_quote, TRUE)
            ELSE TRUE
    ELSE IF in_quote
    THEN LET quotes == {k \in i..Len(stripped) : Char(stripped, k) = "\""}
         IN IF quotes = {} THEN FALSE
            ELSE IF SetMin(quotes) + 1 <= Len(stripped)
                    /\ Char(stripped, SetMin(quotes) + 1) = "\""
            THEN has_unquoted_field(stripped, SetMin(quotes) + 2, in_quote, field_start)
            ELSE has_unquoted_field(stripped, SetMin(quotes) + 1, FALSE, field_start)
    ELSE LET commas == {k \in i..Len(stripped) : Char(stripped, k) = ","}
         IN IF commas = {} THEN FALSE
            ELSE has_unquoted_field(stripped, SetMin(commas) + 1, in_quote, TRUE)

\* check_quoting: the findings appended, one for the first line at fault
check_quoting(csv_name, lines) ==
    LET bad == {k \in 1..Len(lines) :
                   Len(strip(lines[k])) > 0
                       /\ has_unquoted_field(strip(lines[k]), 1, FALSE, TRUE)}
    IN IF bad = {} THEN <<>>
       ELSE <<ValidationError(csv_name, SetMin(bad), "*", "quoting",
                              "Row has unquoted fields (should use QUOTE_ALL)",
                              Prefix(strip(lines[SetMin(bad)]), 80),
                              "Run with --auto-fix to apply QUOTE_ALL")>>

\* check_tags_ordering
check_tags_ordering(csv_name, row_num, row) ==
    LET parts == split(row["tags"], ",")
        tags == [k \in 1..Len(parts) |-> strip(parts[k])]
    IN IF Len(strip(row["tags"])) = 0 \/ tags = sorted(tags) THEN <<>>
       ELSE <<ValidationError(csv_name, row_num, "tags", "tags_not_sorted",
                              "Tags are not alphabetically sorted", row["tags"],
                              join(sorted(tags), ", "))>>

\* check_whitespace, over the columns from the k-th on
RECURSIVE check_whitespace_from(_, _, _, _)
check_whitespace_from(csv_name, row_num, row, k) ==
    IF k > Len(fieldnames) THEN <<>>
    ELSE (IF row[fieldnames[k]] # strip(row[fieldnames[k]])
          THEN <<ValidationError(csv_name, row_num, fieldnames[k], "whitespace",
                                 "Field has leading or trailing whitespace",
                                 row[fieldnames[k]], strip(row[fieldnames[k]]))>>
          ELSE <<>>)
             \o check_whitespace_from(csv_name, row_num, row, k + 1)

check_whitespace(csv_name, row_num, row) == check_whitespace_from(csv_name, row_num, row, 1)

\* duplicate_columns.get(csv_name, []) restricted to the columns of the rows
columns_to_check(csv_name) ==
    IF csv_name \in {"event.csv", "person.csv"} THEN <<"name">> ELSE <<>>

RowNums(nums) == "[" \o join([k \in 1..Len(nums) |-> StrOfNat(nums[k])], ", ") \o "]"

\* the row numbers (from 2) of the rows holding the value in the column
RECURSIVE rows_with(_, _, _, _)
rows_with(rows, column, value, k) ==
    IF k > Len(rows) THEN <<>>
    ELSE (IF strip(rows[k][column]) = value THEN <<k + 1>> ELSE <<>>)
             \o rows_with(rows, column, value, k + 1)

\* the findings of check_duplicates for one column: the values in the order
\* first seen, the k-th row on
RECURSIVE duplicates_from(_, _, _, _)
duplicates_from(csv_name, rows, column, k) ==
    IF k > Len(rows) THEN <<>>
    ELSE LET value == strip(rows[k][column])
             row_nums == rows_with(rows, column, value, 1)
         IN (IF value # "" /\ row_nums[1] = k + 1 /\ Len(row_nums) > 1
             THEN [j \in 1..Len(row_nums) |->
                      ValidationError(csv_name, row_nums[j], column, "duplicate",
                                      "Duplicate value found in rows " \o RowNums(row_nums),
                                      value, None)]
             ELSE <<>>)
                \o duplicates_from(csv_name, rows, column, k + 1)

\* check_duplicates; rows[0] of an empty table is an IndexError
check_duplicates(csv_name, rows) ==
    IF Len(columns_to_check(csv_name)) = 0 THEN <<>>
    ELSE duplicates_from(csv_name, rows, "name", 1)

check_duplicates_raises(csv_name, rows) ==
    Len(columns_to_check(csv_name)) > 0 /\ Len(rows) = 0

\* check_row_order: the first row whose sort key is not the one sorting puts there
check_row_order(csv_name, rows) ==
    LET sort_key == fieldnames[2]
        values == [k \in 1..Len(rows) |-> rows[k][sort_key]]
        sorted_values == sorted_lower(values)
        off == {k \in 1..Len(rows) : values[k] # sorted_values[k]}
    IN IF off = {} THEN <<>>
       ELSE <<ValidationError(csv_name, SetMin(off) + 1, sort_key, "row_order",
                  "Row out of order: '" \o Prefix(values[SetMin(off)], 30)
                      \o "' should come after rows starting with '"
                      \o Prefix(sorted_values[SetMin(off)], 20) \o "...'",
                  values[SetMin(off)], None)>>

\* [parse_reference(r)[0].lower() for r in the non-empty cells of the columns]
reference_names(row, cols) ==
    LET refs == nonempty(Cells(row, cols))
    IN [k \in 1..Len(refs) |-> lower(parse_reference(refs[k])[1])]

reference_order_finding(csv_name, row_num, names, column, message) ==
    IF names = sorted(names) THEN <<>>
    ELSE <<ValidationError(csv_name, row_num, column, "reference_order", message,
                           join(SubSeq(names, 1, IF Len(names) < 3 THEN Len(names) ELSE 3), ", ")
                               \o "...",
                           None)>>

\* check_reference_order
check_reference_order(csv_name, row_num, row) ==
    reference_order_finding(csv_name, row_num, reference_names(row, person_cols),
                            "related person 1-5", "Related persons not in alphabetical order")
        \o reference_order_finding(csv_name, row_num, reference_names(row, event_cols),
                                   "related event 1-5", "Related events not in alphabetical order")

\* the loop of validate_csv over the rows from the k-th on
RECURSIVE check_rows_from(_, _, _)
check_rows_from(csv_name, rows, k) ==
    IF k > Len(rows) THEN <<>>
    ELSE check_tags_ordering(csv_name, k + 1, rows[k])
             \o check_whitespace(csv_name, k + 1, rows[k])
             \o check_reference_order(csv_name, k + 1, rows[k])
             \o check_rows_from(csv_name, rows, k + 1)

\* validate_csv: the findings appended to self.errors
validate_csv(file) ==
    check_quoting(file.name, readlines(file))
        \o check_duplicates(file.name, file.rows)
        \o check_row_order(file.name, file.rows)
        \o check_rows_from(file.name, file.rows, 1)

\* sort_row_references for the columns of one kind: the non-empty references
\* sorted by lower-cased name, then empty cells
sorted_references(row, cols) ==
    LET refs == nonempty(Cells(row, cols))
    IN Items(sort_pairs([k \in 1..Len(refs) |->
                            <<lower(parse_reference(refs[k])[1]), refs[k]>>]))

IndexOf(seq, x) == CHOOSE k \in 1..Len(seq) : seq[k] = x

IsIn(seq, x) == \E k \in 1..Len(seq) : seq[k] = x

Placed(refs, cols, c) == IF IndexOf(cols, c) <= Len(refs) THEN refs[IndexOf(cols, c)] ELSE ""

\* utils.sort_row_references
sort_row_references(row) ==
    [c \in DOMAIN row |->
        IF IsIn(person_cols, c) THEN Placed(sorted_references(row, person_cols), person_cols, c)
        ELSE IF IsIn(event_cols, c) THEN Placed(sorted_references(row, event_cols), event_cols, c)
        ELSE row[c]]

\* row_fixes_by_file[csv_file] of auto_fix: the fix kept for a cell is the
\* one of the last finding on it that carries one and is not a quoting finding
fix_findings(errs, row_num, column) ==
    {k \in 1..Len(errs) :
        /\ errs[k].row_num = row_num
        /\ errs[k].column = column
        /\ errs[k].error_type # "quoting"
        /\ errs[k].suggested_fix # None}

fixed_row(errs, row_num, row) ==
    [c \in DOMAIN row |->
        IF fix_findings(errs, row_num, c) # {}
        THEN errs[SetMax(fix_findings(errs, row_num, c))].suggested_fix
        ELSE row[c]]

\* rows.sort(key=lambda r: r[sort_key].lower())
sort_rows(rows) ==
    Items(sort_pairs([k \in 1..Len(rows) |-> <<lower(rows[k][fieldnames[2]]), rows[k]>>]))

\* FormatValidator.apply_fixes: the file as rewritten
apply_fixes(file, errs) ==
    [name |-> file.name,
     quoting |-> "all",
     rows |-> sort_rows([k \in 1..Len(file.rows) |->
                            sort_row_references(fixed_row(errs, k + 1, file.rows[k]))])]

\* FormatValidator.auto_fix: the file afterwards
auto_fix_file(file, errs) == IF Len(errs) = 0 THEN file ELSE apply_fixes(file, errs)

---------------------------------------------------------------------------
(* A run of the format validator: main() validates the file, then either   *)
(* prints the findings and exits, or with --auto-fix rewrites the file.  A *)
(* second pass is the validation of a new run over the rewritten file.     *)

FormatRow(guid, name, tags, rp1, rp2, re1) ==
    [c \in {fieldnames[k] : k \in 1..Len(fieldnames)} |->
        IF c = "guid" THEN guid
        ELSE IF c = "name" THEN name
        ELSE IF c = "tags" THEN tags
        ELSE IF c = "related person 1" THEN rp1
        ELSE IF c = "related person 2" THEN rp2
        ELSE IF c = "related event 1" THEN re1
        ELSE ""]

FormatRows ==
    {FormatRow("g1", "a", "x, y", "", "", ""),
     FormatRow("g2", "B", " y, x", "", "", ""),
     FormatRow("g3", "c ", "", "Zed: x", "Ann (1~2)", ""),
     FormatRow("g4", "b", "y,x", "", "  ", "Rome"),
     FormatRow("g5", "a", "", "Ann: a, \"b\"", "", " Fall (476)"),
     FormatRow("g6", "D", "x", " Bob", "Al", "")}

\* the tables of at most n rows
RECURSIVE Tables(_)
Tables(n) ==
    IF n = 0 THEN {<<>>}
    ELSE Tables(n - 1) \cup {Append(t, r) : t \in Tables(n - 1), r \in FormatRows}

CsvNames == {"person.csv", "Ultimate History | Person.csv"}

InitFmt ==
    /\ DateIdle
    /\ RefIdle
    /\ ValIdle
    /\ GraphIdle
    /\ TagIdle
    /\ OrdIdle
    /\ pc = "fmt_start"
    /\ auto_fix \in BOOLEAN
    /\ exit_code = None
    /\ \E name \in CsvNames, quoting \in {"all", "minimal", "nonempty"}, rows \in Tables(MaxRows) :
           data_file = [name |-> name, quoting |-> quoting, rows |-> rows]
    /\ data_read = None
    /\ fmt_errors = <<>>

\* validate_all_csvs
ValidateAllCsvs ==
    /\ pc = "fmt_start"
    /\ ~check_duplicates_raises(data_file.name, data_file.rows)
    /\ fmt_errors' = fmt_errors \o validate_csv(data_file)
    /\ pc' = "fmt_validated"
    /\ UNCHANGED <<data_file, data_read, runVars, graphVars, tagVars, dateVars, refVars, valVars, ordVars>>

\* validate_all_csvs raising IndexError in check_duplicates: the run ends
\* with the traceback and exit code 1
ValidateRaises ==
    /\ pc = "fmt_start"
    /\ check_duplicates_raises(data_file.name, data_file.rows)
    /\ fmt_errors' = fmt_errors \o check_quoting(data_file.name, readlines(data_file))
    /\ exit_code' = 1
    /\ pc' = "fmt_raised"
    /\ UNCHANGED <<data_file, data_read, auto_fix, graphVars, tagVars, dateVars, refVars, valVars, ordVars>>

\* main() with --auto-fix: validator.auto_fix(), then the end of main
AutoFix ==
    /\ pc = "fmt_validated"
    /\ auto_fix
    /\ data_read' = data_file
    /\ data_file' = auto_fix_file(data_file, fmt_errors)
    /\ exit_code' = 0
    /\ pc' = "fmt_fixed"
    /\ UNCHANGED <<fmt_errors, auto_fix, graphVars, tagVars, dateVars, refVars, valVars, ordVars>>

\* main() without --auto-fix: print_errors, exit(1) if there are findings
PrintErrors ==
    /\ pc = "fmt_validated"
    /\ ~auto_fix
    /\ exit_code' = (IF Len(fmt_errors) > 0 THEN 1 ELSE 0)
    /\ pc' = "fmt_exited"
    /\ UNCHANGED <<fmtVars, auto_fix, graphVars, tagVars, dateVars, refVars, valVars, ordVars>>

\* validate_all_csvs of a second run, a new FormatValidator over the
\* rewritten file
ValidateAgain ==
    /\ pc = "fmt_fixed"
    /\ ~check_duplicates_raises(data_file.name, data_file.rows)
    /\ fmt_errors' = validate_csv(data_file)
    /\ pc' = "fmt_revalidated"
    /\ UNCHANGED <<data_file, data_read, runVars, graphVars, tagVars, dateVars, refVars, valVars, ordVars>>

NextFmt == ValidateAllCsvs \/ ValidateRaises \/ AutoFix \/ PrintErrors \/ ValidateAgain

SpecFmt == InitFmt /\ [][NextFmt]_vars

---------------------------------------------------------------------------
(* A run of the reference validator: main() loads the tables, validates,   *)
(* prints, and with --auto-fix applies the fixes and creates rows for the  *)
(* missing entities; the process ends with exit code 0.  A second pass is  *)
(* a new run over the rewritten tables.                                    *)

\* the rows appended with one row for every finding of the kind
RECURSIVE missing_rows_PerFinding(_, _, _)
missing_rows_PerFinding(errs, error_type, seen) ==
    IF Len(errs) = 0 THEN <<>>
    ELSE LET p == parse_reference(Head(errs).current_value)
         IN IF Head(errs).error_type = error_type /\ p[1] # ""
            THEN <<[guid |-> "", name |-> p[1],
                    date1 |-> (IF Truthy(p[2]) THEN p[2] ELSE ""),
                    date2 |-> (IF Truthy(p[3]) THEN p[3] ELSE "")]>>
                     \o missing_rows_PerFinding(Tail(errs), error_type, seen)
            ELSE missing_rows_PerFinding(Tail(errs), error_type, seen)

\* create_missing_people / create_missing_events: the rows appended for the
\* findings of the given kind, one per name in the order of the findings
RECURSIVE missing_rows(_, _, _)
missing_rows(errs, error_type, seen) ==
    IF Len(errs) = 0 THEN <<>>
    ELSE LET p == parse_reference(Head(errs).current_value)
         IN IF Head(errs).error_type = error_type /\ p[1] # "" /\ p[1] \notin seen
            THEN <<[guid |-> "", name |-> p[1],
                    date1 |-> (IF Truthy(p[2]) THEN p[2] ELSE ""),
                    date2 |-> (IF Truthy(p[3]) THEN p[3] ELSE "")]>>
                     \o missing_rows(Tail(errs), error_type, seen \cup {p[1]})
            ELSE missing_rows(Tail(errs), error_type, seen)

\* any(e.error_type in ("missing_person", "missing_event") for e in errors)
any_missing(errs) ==
    \E k \in 1..Len(errs) : errs[k].error_type \in {"missing_person", "missing_event"}

RunRests == {"", ": ally", " ~ ally"}

RunFieldsFor(store) ==
    FieldExamples
        \cup UNION {{n \o g \o r : n \in NameVariants(strip(w.name)),
                                   g \in DateGroups(strip(w.date1), strip(w.date2)),
                                   r \in RunRests} : w \in RowsOf(store)}

InitRun ==
    /\ DateIdle
    /\ RefIdle
    /\ pc = "start"
    /\ \E store \in Stores :
           /\ person_rows = store[1]
           /\ event_rows = store[2]
           /\ field \in RunFieldsFor(store)
    /\ people = <<>>
    /\ events = <<>>
    /\ errors = <<>>
    /\ fix = None
    /\ auto_fix \in BOOLEAN
    /\ exit_code = None
    /\ FmtIdle
    /\ GraphIdle
    /\ TagIdle
    /\ OrdIdle

\* the table apply_fixes of the reference validator writes: the row of the
\* validated cell with the fix in it, through a csv.DictWriter with the
\* default quoting
written_table(at, text) ==
    [name |-> CsvFile, quoting |-> "minimal",
     rows |-> <<[c \in {fieldnames[k] : k \in 1..Len(fieldnames)} |->
                   IF c = "guid" THEN "g1"
                   ELSE IF c = "name" THEN "a"
                   ELSE IF c = "related person 1" /\ at = "validated_person" THEN text
                   ELSE IF c = "related event 1" /\ at = "validated_event" THEN text
                   ELSE ""]>>]

\* the line create_missing_people / create_missing_events appends for a
\* stub row, through a csv.DictWriter with the default quoting
stub_line(row) == write_line(<<row.guid, row.name, row.date1, row.date2>>, "minimal")

\* main() with --auto-fix and something to fix: apply_fixes writes the fix
\* into its cell, the missing entities get their rows, and main returns
ApplyFixes ==
    /\ pc \in {"validated_person", "validated_event"}
    /\ auto_fix
    /\ Truthy(fix) \/ any_missing(errors)
    /\ field' = (IF Truthy(fix) THEN fix ELSE field)
    /\ data_file' = (IF Truthy(fix) THEN written_table(pc, fix) ELSE data_file)
    /\ person_rows' = person_rows \o missing_rows(errors, "missing_person", {})
    /\ event_rows' = event_rows \o missing_rows(errors, "missing_event", {})
    /\ exit_code' = 0
    /\ pc' = (IF pc = "validated_person" THEN "fixed_person" ELSE "fixed_event")
    /\ UNCHANGED <<people, events, errors, fix, auto_fix, data_read, fmt_errors, graphVars, tagVars, dateVars, refVars, ordVars>>

\* main() without --auto-fix, or with nothing to fix: it prints and returns
Finish ==
    /\ pc \in {"validated_person", "validated_event"}
    /\ ~auto_fix \/ ~(Truthy(fix) \/ any_missing(errors))
    /\ exit_code' = 0
    /\ pc' = "exited"
    /\ UNCHANGED <<valVars, auto_fix, fmtVars, graphVars, tagVars, dateVars, refVars, ordVars>>

\* the validation of a second run over the rewritten tables: load_people,
\* load_events and the validation of the cell
Revalidate ==
    /\ pc \in {"fixed_person", "fixed_event"}
    /\ people' = load_rows(person_rows, <<>>)
    /\ events' = load_rows(event_rows, <<>>)
    /\ LET r == IF pc = "fixed_person"
                THEN validate_person_reference(people', <<>>, CsvFile, RowNum,
                                               "related person 1", field)
                ELSE validate_event_reference(events', <<>>, CsvFile, RowNum,
                                              "related event 1", field)
       IN errors' = r.errors /\ fix' = r.fix
    /\ pc' = (IF pc = "fixed_person" THEN "revalidated_person" ELSE "revalidated_event")
    /\ UNCHANGED <<person_rows, event_rows, field, runVars, fmtVars, graphVars, tagVars, dateVars, refVars, ordVars>>

NextRun ==
    \/ LoadPeople \/ LoadEvents \/ ValidatePerson \/ ValidateEvent
    \/ ApplyFixes \/ Finish \/ Revalidate

SpecRun == InitRun /\ [][NextRun]_vars

---------------------------------------------------------------------------
(* Claims about the date codec                                             *)

IsDigits(s) == Len(s) > 0 /\ \A i \in 1..Len(s) : IsDigit(Char(s, i))

\* ",ddd" repeated
RECURSIVE IsGroupTail(_)
IsGroupTail(r) ==
    \/ Len(r) = 0
    \/ /\ Len(r) >= 4
       /\ Head(r) = ","
       /\ IsDigits(SubSeq(r, 2, 4))
       /\ IsGroupTail(SubSeq(r, 5, Len(r)))

\* one to three digits, then groups of three digits each led by a separator
IsGrouped(s) ==
    \E k \in 1..3 :
        /\ k <= Len(s)
        /\ IsDigits(SubSeq(s, 1, k))
        /\ IsGroupTail(SubSeq(s, k + 1, Len(s)))

\* a date text without its "c. " prefix and its " BCE" suffix
DateCore(s) ==
    LET a == IF startswith(s, "c. ") THEN SubSeq(s, 4, Len(s)) ELSE s
    IN IF endswith(a, " BCE") THEN SubSeq(a, 1, Len(a) - 4) ELSE a

\* optional "c. " prefix, digits with optional thousand separators,
\* optional " BCE" suffix
WellFormedDate(s) == IsDigits(DateCore(s)) \/ IsGrouped(DateCore(s))

\* the well-formed texts format_date writes: no leading zero, separators
\* exactly from five digits up, no " BCE" on year 0
CanonicalDate(s) ==
    LET c == DateCore(s)
        ds == RemoveChar(c, ",")
    IN /\ WellFormedDate(s)
       /\ Len(ds) = 1 \/ Head(ds) # "0"
       /\ IF Len(ds) >= 5 THEN IsGrouped(c) ELSE c = ds
       /\ endswith(s, " BCE") => ds # "0"

\* C1: for every integer year and every approximate flag,
\* parse_date(format_date(year, approximate)) is (year, approximate).
C1_ValueRoundTrip ==
    pc = "value_done" => parsed = <<"ok", year, approximate>>

C1_Witness ==
    /\ pc = "value_done"
    /\ year = -1700000
    /\ approximate
    /\ date_str = "c. 1,700,000 BCE"
    /\ parsed = <<"ok", -1700000, TRUE>>

\* C2 as claimed: for every well-formed date text s (optional "c. " prefix,
\* digits with optional thousand separators, optional " BCE" suffix),
\* format_date(parse_date(s)) = s.
C2_TextRoundTrip ==
    pc = "text_done" /\ WellFormedDate(date_str) => formatted = date_str

\* C2 as amended: for every canonical date text s (optional "c. " prefix, a
\* digit string without leading zero that carries thousand separators
\* exactly when it has five or more digits, optional " BCE" suffix on a
\* nonzero year), format_date(parse_date(s)) = s.
C2_CanonicalTextRoundTrip ==
    pc = "text_done" /\ CanonicalDate(date_str) => formatted = date_str

C2_Witness ==
    /\ pc = "text_done"
    /\ date_str = "c. 1,700,000 BCE"
    /\ CanonicalDate(date_str)
    /\ parsed = <<"ok", -1700000, TRUE>>
    /\ formatted = date_str

\* what C3 says parse_date returns for a text
ClaimedParse(text) ==
    LET t == strip(text)
        approx == startswith(t, "c. ")
        a == IF approx THEN SubSeq(t, 4, Len(t)) ELSE t
        bce == endswith(t, " BCE")
        b == IF endswith(a, " BCE") /\ bce THEN SubSeq(a, 1, Len(a) - 4) ELSE a
        n == PyInt(RemoveChar(b, ","))
    IN IF Len(t) = 0 THEN <<"none">>
       ELSE IF n[1] # "ok" THEN <<"ValueError">>
       ELSE <<"ok", IF bce THEN -n[2] ELSE n[2], approx>>

\* C3: parse_date of a blank text is (None, None); otherwise approximate is
\* TRUE exactly when the text starts with "c. ", the year is the integer
\* value of the remainder with thousand separators removed, negated exactly
\* when the text ends in " BCE", and a non-numeric remainder raises.
C3_ParseDate ==
    pc \in {"text_parsed", "text_failed"} => parsed = ClaimedParse(date_str)

---------------------------------------------------------------------------
(* Claims about the reference codec                                        *)

CountChar(s, c) == Cardinality({i \in 1..Len(s) : Char(s, i) = c})

ParensBalanced(s) ==
    /\ CountChar(s, "(") = CountChar(s, ")")
    /\ \A k \in 1..Len(s) :
           CountChar(SubSeq(s, 1, k), "(") >= CountChar(SubSeq(s, 1, k), ")")

DigitInParens(s) ==
    \E i \in 1..Len(s) : \E j \in (i + 1)..Len(s) :
        Char(s, i) = "(" /\ IsDigit(Char(s, j))

PlainPart(d) ==
    /\ Len(d) > 0
    /\ strip(d) = d
    /\ \A i \in 1..Len(d) : ~IsAnyDash(Char(d, i)) /\ Char(d, i) \notin {"(", ")", ":"}

\* a tuple as the grammar NAME (DATE1[~DATE2]): DESCRIPTION writes it: an
\* absent part is None; the name is trimmed and not empty, holds no colon
\* and no en or em dash, its parentheses balance and, when no date follows,
\* enclose no digit; a date is trimmed, not empty, free of dashes,
\* parentheses and colons, the first one holds a digit and the second one
\* comes only with the first; the description is trimmed, not empty and holds
\* no colon
WellFormedRef(t) ==
    /\ Len(t[1]) > 0
    /\ strip(t[1]) = t[1]
    /\ \A i \in 1..Len(t[1]) : ~IsDash(Char(t[1], i)) /\ Char(t[1], i) # ":"
    /\ ParensBalanced(t[1])
    /\ t[2] = None => t[3] = None /\ ~DigitInParens(t[1])
    /\ t[2] # None => PlainPart(t[2]) /\ HasDigit(t[2])
    /\ t[3] # None => PlainPart(t[3])
    /\ t[4] # None => Len(t[4]) > 0 /\ strip(t[4]) = t[4] /\ ~Contains(t[4], ":")

\* C4: for every tuple (name, date1, date2, description) whose canonical
\* encoding is well-formed, parse_reference(format_reference(tuple)) is the
\* tuple.
C4_RefRoundTrip ==
    pc = "tuple_done" /\ WellFormedRef(ref) => decoded = ref

C4_Witness ==
    /\ pc = "tuple_done"
    /\ ref = <<"Unification of Italy (Risorgimento)", "1848", "1871", "led to">>
    /\ WellFormedRef(ref)
    /\ ref_text = "Unification of Italy (Risorgimento) (1848~1871): led to"
    /\ decoded = ref

\* the head of a reference text: what precedes the separator
HeadOf(text) ==
    LET v == strip(text)
        sep == separator_match(v)
    IN IF sep[1] > 0 THEN strip(SubSeq(v, 1, sep[1] - 1)) ELSE v

\* the content of the last parenthesized group of a head, None without one
LastGroupContent(head) ==
    LET g == last_paren(head, 1, <<0, 0>>)
    IN IF g[1] = 0 THEN None ELSE SubSeq(head, g[1] + 1, g[2] - 1)

BeforeLastGroup(head) ==
    strip(SubSeq(head, 1, last_paren(head, 1, <<0, 0>>)[1] - 1))

\* C5: parse_reference takes the dates from the last parenthesized group of
\* the head only when that group holds a digit, and then the name is what
\* precedes that group; when the last group holds no digit, or there is no
\* group, the whole head is the name and both dates are None.  A group is a
\* match of "(", one or more characters other than ")", ")".
C5_DatesFromLastGroup ==
    pc = "ref_text_done" =>
        LET head == HeadOf(ref_text)
            content == LastGroupContent(head)
            dated == decoded[2] # None \/ decoded[3] # None
        IN /\ dated => /\ content # None
                       /\ HasDigit(content)
                       /\ decoded[1] = BeforeLastGroup(head)
                       /\ Contains(content, decoded[2])
                       /\ decoded[3] # None => Contains(content, decoded[3])
           /\ content = None \/ ~HasDigit(content) =>
                  /\ decoded[1] = head
                  /\ decoded[2] = None
                  /\ decoded[3] = None
           /\ ref_text = "Unification of Italy (Risorgimento) (1848~1871): led to" =>
                  decoded = <<"Unification of Italy (Risorgimento)",
                              "1848", "1871", "led to">>

C5_Witness ==
    /\ pc = "ref_text_done"
    /\ ref_text = "Unification of Italy (Risorgimento) (1848~1871): led to"
    /\ LastGroupContent(HeadOf(ref_text)) = "1848~1871"
    /\ decoded = <<"Unification of Italy (Risorgimento)", "1848", "1871", "led to">>

---------------------------------------------------------------------------
(* Claims about the reference validator                                    *)

Validated == pc \in {"validated_person", "validated_event"}

\* the dict the validated field is looked up in
Known == IF pc = "validated_person" THEN people ELSE events

MissingKind == IF pc = "validated_person" THEN "missing_person" ELSE "missing_event"

\* the field as decoded
Dec == parse_reference(field)

ExactKey(name) == \E k \in 1..Len(Known) : Known[k].name = name

Similarity(name, k) == ratio(lower(name), lower(Known[k].name))

FuzzyHit(name) ==
    \E k \in 1..Len(Known) : RatGE(Similarity(name, k), fuzzy_threshold)

\* the known entities most similar to the name
BestMatches(name) ==
    {k \in 1..Len(Known) :
        \A j \in 1..Len(Known) : RatGE(Similarity(name, k), Similarity(name, j))}

\* the decoded name is the whole text, and the text holds parentheses and
\* a spaced en or em dash
FellBack(text) ==
    /\ parse_reference(text)[1] = text
    /\ Contains(text, "(") /\ Contains(text, ")")
    /\ Contains(text, " ~ ") \/ Contains(text, " = ")

OneFinding(type) == Len(errors) = 1 /\ errors[1].error_type = type

DatesMatch ==
    /\ ExactKey(Dec[1])
    /\ DictGet(Known, Dec[1]).date1 = Dec[2]
    /\ DictGet(Known, Dec[1]).date2 = Dec[3]

NameMismatchFound ==
    /\ OneFinding("name_mismatch")
    /\ \E k \in BestMatches(Dec[1]) :
           errors[1].suggested_fix =
               format_reference(Known[k].name, Known[k].date1, Known[k].date2, Dec[4])
    /\ fix = errors[1].suggested_fix
    /\ errors[1].current_value = field

\* C6 as claimed: a reference whose decoded name is no exact key of the
\* known entities of its kind but fuzzy-matches one at or above the threshold
\* gets exactly one name_mismatch finding, whose fix is the canonical
\* encoding of the matched name and dates with the original description.
C6_NameMismatch ==
    Validated /\ ~ExactKey(Dec[1]) /\ FuzzyHit(Dec[1]) => NameMismatchFound

\* C6 as amended: the same for a reference that is not classified
\* unparseable.
C6_NameMismatchUnlessUnparseable ==
    Validated /\ ~FellBack(field) /\ ~ExactKey(Dec[1]) /\ FuzzyHit(Dec[1]) =>
        NameMismatchFound

C6_Witness ==
    /\ pc = "validated_person"
    /\ field = "Napolean Bonaparte (1769-1821): ally"
    /\ DictHas(people, "Napoleon Bonaparte")
    /\ OneFinding("name_mismatch")
    /\ fix = "Napoleon Bonaparte (1769~1821): ally"

MissingFound ==
    /\ OneFinding(MissingKind)
    /\ errors[1].suggested_fix = None
    /\ errors[1].current_value = field
    /\ fix = None

\* C7 as claimed: a reference whose name has neither an exact nor a fuzzy
\* match among the known entities of its kind gets a missing_person (person
\* field) or missing_event (event field) finding without fix, and no fix is
\* returned.
C7_Missing ==
    Validated /\ Len(strip(field)) > 0 /\ ~ExactKey(Dec[1]) /\ ~FuzzyHit(Dec[1]) =>
        MissingFound

\* C7 as amended: the same for a reference with a decoded name that is not
\* empty and that is not classified unparseable.
C7_MissingWhenDecoded ==
    Validated /\ Dec[1] # "" /\ ~FellBack(field)
        /\ ~ExactKey(Dec[1]) /\ ~FuzzyHit(Dec[1]) => MissingFound

C7_Witness ==
    /\ pc = "validated_event"
    /\ field = "Name (1800~1850): ally"
    /\ Len(events) > 0
    /\ OneFinding("missing_event")
    /\ errors[1].suggested_fix = None
    /\ fix = None

\* C8: a reference whose decoded name is an exact key but whose decoded
\* dates differ from the entity's gets a date_mismatch finding whose fix
\* decodes to the entity's name and exactly its two canonical dates.
C8_DateMismatchFix ==
    Validated /\ ExactKey(Dec[1]) /\ ~DatesMatch =>
        /\ OneFinding("date_mismatch")
        /\ fix = errors[1].suggested_fix
        /\ parse_reference(fix)[1] = Dec[1]
        /\ parse_reference(fix)[2] = DictGet(Known, Dec[1]).date1
        /\ parse_reference(fix)[3] = DictGet(Known, Dec[1]).date2

Canonical == format_reference(Dec[1], Dec[2], Dec[3], Dec[4])

FormatIssueFound ==
    /\ OneFinding("format_issue")
    /\ errors[1].suggested_fix = Canonical
    /\ errors[1].current_value = field
    /\ fix = Canonical

\* C9 as claimed: for a reference whose decoded name and dates match the
\* entity, a format_issue finding with the canonical encoding as fix is
\* emitted when the field text is not identical to the canonical encoding,
\* and no finding when it is.
C9_FormatIssue ==
    Validated /\ Len(strip(field)) > 0 /\ DatesMatch =>
        IF field = Canonical THEN errors = <<>> /\ fix = None ELSE FormatIssueFound

\* C9 as amended: for such a reference that is not classified unparseable
\* the finding is emitted when the field text, trimmed and with every run of
\* whitespace collapsed to one space, differs from the canonical encoding
\* collapsed in the same way, and no finding is emitted otherwise.
C9_FormatIssueUpToWhitespace ==
    Validated /\ Len(strip(field)) > 0 /\ DatesMatch /\ ~FellBack(field) =>
        IF CollapseSpaces(strip(field)) = CollapseSpaces(strip(Canonical))
        THEN errors = <<>> /\ fix = None
        ELSE FormatIssueFound

C9_Witness ==
    /\ pc = "validated_person"
    /\ field = "Nero (37-68):ally"
    /\ DatesMatch
    /\ OneFinding("format_issue")
    /\ fix = "Nero (37~68): ally"

\* the trimmed text holds no colon and exactly one en or em dash that
\* whitespace follows
SingleDashNoColon(text) ==
    /\ ColonStarts(strip(text)) = {}
    /\ Cardinality(DashStarts(strip(text))) = 1

AfterDash(text) ==
    LET v == strip(text)
        i == CHOOSE k \in DashStarts(v) : TRUE
    IN strip(SubSeq(v, i + 1, Len(v)))

\* C10 as claimed: a reference with a single dash separator and no colon is
\* classified unparseable, without fix.
C10_DashUnparseable ==
    Validated /\ SingleDashNoColon(field) =>
        /\ OneFinding("unparseable")
        /\ errors[1].suggested_fix = None
        /\ fix = None

\* C10 as amended: such a reference is decoded with the dash as the
\* description separator and classified like any other reference, so that
\* with the name and dates of a known entity it gets a format_issue finding
\* whose fix writes the description after a colon; it is classified
\* unparseable, without fix, exactly when the decoding fell back to the whole
\* text as the name (a date group of three or more parts) and that text holds
\* parentheses and a spaced en or em dash.
C10_DashDecoded ==
    Validated /\ SingleDashNoColon(field) =>
        /\ FellBack(field) <=> OneFinding("unparseable")
        /\ FellBack(field) => errors[1].suggested_fix = None /\ fix = None
        /\ Dec[1] # strip(field) =>
               /\ Dec[4] = AfterDash(field)
               /\ DatesMatch => FormatIssueFound /\ Contains(fix, ": " \o Dec[4])

C10_Witness ==
    /\ pc = "validated_person"
    /\ field = "Nero (37~68) ~ ally"
    /\ SingleDashNoColon(field)
    /\ Dec = <<"Nero", "37", "68", "ally">>
    /\ OneFinding("format_issue")
    /\ fix = "Nero (37~68): ally"

---------------------------------------------------------------------------
(* Claims about the validator runs                                         *)

Revalidated == pc \in {"revalidated_person", "revalidated_event"}

\* C11: after a fix pass of the reference validator a second validation
\* pass over the rewritten tables yields no finding of an auto-fixable kind
\* (date_mismatch, format_issue, name_mismatch).
C11_FixIdempotent ==
    Revalidated =>
        \A k \in 1..Len(errors) :
            errors[k].error_type \notin {"date_mismatch", "format_issue", "name_mismatch"}

\* the row of the rewritten file that was row row_num of the file read
SameRow(row, row_num) == row["guid"] = strip(data_read.rows[row_num - 1]["guid"])

\* the cell the fix of a finding belongs in: its column, or for a reference
\* any column of the same kind, the references of a row being reordered
HoldsFix(row, e) ==
    \/ row[e.column] = e.suggested_fix
    \/ /\ IsIn(person_cols, e.column)
       /\ \E k \in 1..Len(person_cols) : row[person_cols[k]] = e.suggested_fix
    \/ /\ IsIn(event_cols, e.column)
       /\ \E k \in 1..Len(event_cols) : row[event_cols[k]] = e.suggested_fix

\* C12: in a fix run of the format validator every finding that carries a
\* fix for a cell is applied: the rewritten table holds the fix in the
\* finding's cell, also when two findings concern the same cell.
C12_EveryFixApplied ==
    pc = "fmt_fixed" =>
        \A k \in 1..Len(fmt_errors) :
            fmt_errors[k].suggested_fix # None /\ fmt_errors[k].error_type # "quoting" =>
                \E j \in 1..Len(data_file.rows) :
                    /\ SameRow(data_file.rows[j], fmt_errors[k].row_num)
                    /\ HoldsFix(data_file.rows[j], fmt_errors[k])

\* C13: a validation run without fixing exits with a nonzero code if at
\* least one finding was produced and with code 0 if none was, for the
\* reference validator as for the format validator.
C13_ExitCode ==
    /\ pc = "exited" /\ ~auto_fix => (exit_code # 0 <=> Len(errors) > 0)
    /\ pc = "fmt_exited" => (exit_code # 0 <=> Len(fmt_errors) > 0)


(***************************************************************************)
(* Relationship graph: tools/list_relationships.py over tools/model.py.   *)
(* A table is a record [exists, columns, rows]; a row maps each column of *)
(* the table to its text.  RelationshipAnalyzer.notes is the sequence of  *)
(* its values in insertion order; incoming_relationships is the sequence  *)
(* of the entries appended to it, each with the key it was appended under.*)
(***************************************************************************)

\* model.Relationship
Relationship(target_name, target_guid, description) == [target_name |-> target_name, target_guid |-> target_guid, description |-> description]

\* model.Note and its subclasses: the class, the guid, what get_display_name
\* returns, and the two outgoing lists
Note(note_class, guid, display_name) == [note_class |-> note_class, guid |-> guid, display_name |-> display_name, related_persons |-> <<>>, related_events |-> <<>>]

\* Note.get_all_outgoing_relationships
get_all_outgoing_relationships(note) == note.related_persons \o note.related_events

\* the column of field_mapping that get_display_name of the class returns
display_column(note_class) ==
    CASE note_class \in {"Person", "Event"} -> "name"
      [] note_class = "QA" -> "question"
      [] note_class = "Cloze" -> "text"

\* self.notes[guid] = note
notes_set(d, note) ==
    IF \E k \in 1..Len(d) : d[k].guid = note.guid
    THEN [k \in 1..Len(d) |-> IF d[k].guid = note.guid THEN note ELSE d[k]]
    ELSE Append(d, note)

\* the loop over row.items() of load_notes_from_csv, from column k on
RECURSIVE parse_relationships(_, _, _, _)
parse_relationships(row, columns, k, note) ==
    IF k > Len(columns) THEN note
    ELSE LET column == columns[k]
             p == parse_reference(row[column])
             rel == Relationship(p[1], None, p[4])
         IN IF Len(strip(row[column])) = 0
            THEN parse_relationships(row, columns, k + 1, note)
            ELSE IF Contains(lower(column), "personal")
            THEN parse_relationships(row, columns, k + 1, note)
            ELSE IF Contains(lower(column), "related person") /\ Truthy(p[1])
            THEN parse_relationships(row, columns, k + 1,
                     [note EXCEPT !.related_persons = Append(@, rel)])
            ELSE IF ~Contains(lower(column), "related person")
                    /\ Contains(lower(column), "related event") /\ Truthy(p[1])
            THEN parse_relationships(row, columns, k + 1,
                     [note EXCEPT !.related_events = Append(@, rel)])
            ELSE parse_relationships(row, columns, k + 1, note)

\* the note load_notes_from_csv makes of a row whose guid is not blank
note_of_row(row, columns, note_class) ==
    parse_relationships(row, columns, 1,
        Note(note_class, strip(row["guid"]),
             IF display_column(note_class) \in DOMAIN row
             THEN strip(row[display_column(note_class)]) ELSE ""))

\* the loop over the rows of load_notes_from_csv, from row k on
RECURSIVE load_notes_from_rows(_, _, _, _)
load_notes_from_rows(table, k, note_class, d) ==
    IF k > Len(table.rows) THEN d
    ELSE IF Len(strip(table.rows[k]["guid"])) = 0
    THEN load_notes_from_rows(table, k + 1, note_class, d)
    ELSE load_notes_from_rows(table, k + 1, note_class,
             notes_set(d, note_of_row(table.rows[k], table.columns, note_class)))

\* load_notes_from_csv: nothing to do when the file does not exist
load_notes_from_csv(table, note_class, d) ==
    IF ~table.exists THEN d ELSE load_notes_from_rows(table, 1, note_class, d)

\* row["guid"] raises KeyError: the table has a row and no guid column
load_notes_raises(table) ==
    /\ table.exists
    /\ Len(table.rows) > 0
    /\ \A k \in 1..Len(table.columns) : table.columns[k] # "guid"

\* load_all_notes
load_all_notes(tables, d) ==
    load_notes_from_csv(tables["cloze.csv"], "Cloze",
        load_notes_from_csv(tables["qa.csv"], "QA",
            load_notes_from_csv(tables["event.csv"], "Event",
                load_notes_from_csv(tables["person.csv"], "Person", d))))

\* load_all_notes raises in one of its four loads
load_all_notes_raises(tables) ==
    \E f \in DOMAIN tables : load_notes_raises(tables[f])

\* isinstance(note, (Person, Event)) taken for every note
is_target_AnyNote(note) == note.note_class \in {"Person", "Event", "QA", "Cloze"}

\* isinstance(note, (Person, Event))
is_target(note) == note.note_class \in {"Person", "Event"}

\* the positions in self.notes of the notes stored under a name in
\* name_to_note, the last of them being the one the dict keeps
named(d, name) ==
    {k \in 1..Len(d) : is_target(d[k]) /\ d[k].display_name = name}

\* name_to_note.get(rel.target_name) is not None
name_found(d, name) == named(d, name) # {}

\* name_to_note.get(rel.target_name)
name_to_note(d, name) == d[SetMax(named(d, name))]

\* rel after the body of the loop of resolve_relationship_guids
resolve_rel(d, rel) ==
    IF name_found(d, rel.target_name)
    THEN [rel EXCEPT !.target_guid = name_to_note(d, rel.target_name).guid]
    ELSE rel

\* a list of relationships after resolve_relationship_guids
resolve_list(d, rels) == [k \in 1..Len(rels) |-> resolve_rel(d, rels[k])]

\* self.notes after resolve_relationship_guids
resolved_notes(d) ==
    [k \in 1..Len(d) |->
        [d[k] EXCEPT !.related_persons = resolve_list(d, @),
                     !.related_events = resolve_list(d, @)]]

\* the entries resolve_relationship_guids appends for the relationships
\* rels of one source note, from relationship k on
RECURSIVE incoming_of_note(_, _, _, _)
incoming_of_note(d, source_note, rels, k) ==
    IF k > Len(rels) THEN <<>>
    ELSE IF name_found(d, rels[k].target_name)
    THEN <<[key |-> name_to_note(d, rels[k].target_name).guid,
            source_guid |-> source_note.guid,
            source_class |-> source_note.note_class,
            rel |-> resolve_rel(d, rels[k])]>>
         \o incoming_of_note(d, source_note, rels, k + 1)
    ELSE incoming_of_note(d, source_note, rels, k + 1)

\* the entries resolve_relationship_guids appends, from source note k on
RECURSIVE incoming_appended(_, _)
incoming_appended(d, k) ==
    IF k > Len(d) THEN <<>>
    ELSE incoming_of_note(d, d[k], get_all_outgoing_relationships(d[k]), 1)
         \o incoming_appended(d, k + 1)

\* self.incoming_relationships.get(guid, [])
incoming_get(index, guid) == SelectSeq(index, LAMBDA e : e.key = guid)

\* the index a new RelationshipAnalyzer starts with, if it kept the one
\* of the analyzer before it
init_incoming_Kept == incoming

\* the index a new RelationshipAnalyzer starts with: defaultdict(list)
init_incoming == <<>>


(***************************************************************************)
(* A run of list_relationships.py (main), the tables being edited between  *)
(* one run and the next.                                                   *)
(***************************************************************************)

RelationColumns == <<"related person 1", "personal related person 1", "related event 1">>

\* a table that load_notes_from_csv does not find
NoTable == [exists |-> FALSE, columns |-> <<>>, rows |-> <<>>]

\* a row of a table with the columns guid, display column, RelationColumns
GraphRow(display, guid, text, rp1, prp1, re1) ==
    (display :> text) @@ [c \in {"guid", "related person 1", "personal related person 1", "related event 1"} |->
        CASE c = "guid" -> guid
          [] c = "related person 1" -> rp1
          [] c = "personal related person 1" -> prp1
          [] c = "related event 1" -> re1]

\* a table of such rows
GraphTable(display, rows) ==
    [exists |-> TRUE, columns |-> <<"guid", display>> \o RelationColumns, rows |-> rows]

\* the row without its guid column
dropped_guid(row) == [c \in DOMAIN row \ {"guid"} |-> row[c]]

\* a table of such rows exported without the guid column
GraphTableNoGuid(display, rows) ==
    [exists |-> TRUE, columns |-> <<display>> \o RelationColumns,
     rows |-> [k \in 1..Len(rows) |-> dropped_guid(rows[k])]]

PersonTables ==
    LET troy == GraphRow("name", "p2", "Troy", "", "", "")
        ajax == {GraphRow("name", g, "Ajax", rp1, "Troy", re1) :
                    g \in {"p1", " "}, rp1 \in {"", "Troy"}, re1 \in {"", "Troy: siege"}}
    IN {GraphTable("name", <<a>>) : a \in ajax}
       \cup {GraphTable("name", <<a, troy>>) : a \in {r \in ajax : r["guid"] = "p1"}}

EventTables ==
    {NoTable, GraphTable("name", <<>>)}
    \cup {GraphTable("name", <<GraphRow("name", "e1", "Troy", rp1, "", "")>>) :
             rp1 \in {"", "Ajax (1200 BCE)", "Ajaxx"}}

QATables ==
    LET qa == {GraphRow("question", "q1", q, rp1, "", re1) :
                  q \in {"Troy", "Who?"}, rp1 \in {"", "Troy"}, re1 \in {"", "Ajax"}}
    IN {GraphTable("question", <<r>>) : r \in qa}
       \cup {GraphTable("question", <<GraphRow("question", "", "Who?", "Troy", "", "")>>),
             GraphTableNoGuid("question", <<GraphRow("question", "q1", "Who?", "Troy", "", "")>>),
             GraphTableNoGuid("question", <<>>)}

ClozeTables ==
    {NoTable, GraphTable("text", <<GraphRow("text", "c1", "Troy", "Ajax", "", "")>>)}

TableNames == {"person.csv", "event.csv", "qa.csv", "cloze.csv"}

InitGraph ==
    /\ DateIdle
    /\ RefIdle
    /\ ValIdle
    /\ FmtIdle
    /\ TagIdle
    /\ OrdIdle
    /\ auto_fix = FALSE
    /\ exit_code = None
    /\ pc = "start"
    /\ \E p \in PersonTables, e \in EventTables, q \in QATables, c \in ClozeTables :
           graph_tables = [f \in TableNames |->
               CASE f = "person.csv" -> p
                 [] f = "event.csv" -> e
                 [] f = "qa.csv" -> q
                 [] f = "cloze.csv" -> c]
    /\ notes = <<>>
    /\ incoming = <<>>
    /\ resolves = 0
    /\ edits = <<>>

\* main: analyzer = RelationshipAnalyzer(data_dir)
Construct ==
    /\ pc \in {"start", "edited"}
    /\ resolves < MaxResolves
    /\ notes' = <<>>
    /\ incoming' = init_incoming
    /\ exit_code' = None
    /\ pc' = "constructed"
    /\ UNCHANGED <<auto_fix, graph_tables, resolves, edits, fmtVars, tagVars, dateVars, refVars, valVars, ordVars>>

\* main: analyzer.load_all_notes()
LoadAllNotes ==
    /\ pc = "constructed"
    /\ ~load_all_notes_raises(graph_tables)
    /\ notes' = load_all_notes(graph_tables, notes)
    /\ pc' = "loaded"
    /\ UNCHANGED <<runVars, graph_tables, incoming, resolves, edits, fmtVars, tagVars, dateVars, refVars, valVars, ordVars>>

\* main: analyzer.load_all_notes() ends the process with a KeyError
LoadAllNotesRaises ==
    /\ pc = "constructed"
    /\ load_all_notes_raises(graph_tables)
    /\ exit_code' = 1
    /\ pc' = "raised"
    /\ UNCHANGED <<auto_fix, graphVars, fmtVars, tagVars, dateVars, refVars, valVars, ordVars>>

\* main: analyzer.resolve_relationship_guids()
ResolveRelationshipGuids ==
    /\ pc = "loaded"
    /\ notes' = resolved_notes(notes)
    /\ incoming' = incoming \o incoming_appended(notes, 1)
    /\ resolves' = resolves + 1
    /\ pc' = "resolved"
    /\ UNCHANGED <<runVars, graph_tables, edits, fmtVars, tagVars, dateVars, refVars, valVars, ordVars>>

\* main: fuzzy_search, print_relationships, and the process ends
PrintRelationships ==
    /\ pc = "resolved"
    /\ exit_code' = 0
    /\ pc' = "printed"
    /\ UNCHANGED <<auto_fix, graphVars, fmtVars, tagVars, dateVars, refVars, valVars, ordVars>>

\* between two runs a reference is removed from a row of a table
RemoveReference ==
    /\ pc = "printed"
    /\ Len(edits) < MaxEdits
    /\ \E f \in TableNames, c \in {"related person 1", "related event 1"} :
         \E k \in 1..Len(graph_tables[f].rows) :
           /\ "guid" \in DOMAIN graph_tables[f].rows[k]
           /\ Len(strip(graph_tables[f].rows[k][c])) > 0
           /\ graph_tables' = [graph_tables EXCEPT ![f].rows[k][c] = ""]
           /\ edits' = Append(edits,
                  [source_guid |-> strip(graph_tables[f].rows[k]["guid"]),
                   target_name |-> parse_reference(graph_tables[f].rows[k][c])[1]])
    /\ pc' = "edited"
    /\ UNCHANGED <<runVars, notes, incoming, resolves, fmtVars, tagVars, dateVars, refVars, valVars, ordVars>>

NextGraph ==
    \/ Construct
    \/ LoadAllNotes
    \/ LoadAllNotesRaises
    \/ ResolveRelationshipGuids
    \/ PrintRelationships
    \/ RemoveReference

SpecGraph == InitGraph /\ [][NextGraph]_vars


(***************************************************************************)
(* Claims about the relationship graph                                     *)
(***************************************************************************)

\* the analyzer of the current run has resolved its relationships
Resolved == pc \in {"resolved", "printed"}

\* how many references note a holds to the name
References(a, name) ==
    Len(SelectSeq(get_all_outgoing_relationships(a), LAMBDA r : r.target_name = name))

\* how many entries of b's incoming list come from note a
IncomingFrom(b, a) ==
    Len(SelectSeq(incoming_get(incoming, b.guid), LAMBDA e : e.source_guid = a.guid))

\* note b is the entity its name resolves to
Resolvable(b) == is_target(b) /\ name_to_note(notes, b.display_name) = b

\* C14: after resolution the incoming list of an entity B holds a note A as
\* many times as A holds references to B: once when A holds one reference,
\* and not at all once that reference has been removed and the relationships
\* have been resolved again, the index being built anew by every run.
C14_IncomingExactlyOnce ==
    Resolved =>
        \A i, j \in 1..Len(notes) :
            Resolvable(notes[j]) =>
                IncomingFrom(notes[j], notes[i]) = References(notes[i], notes[j].display_name)

\* a second run after a reference of A to B was removed: A is absent from
\* B's incoming list, which holds another note exactly once
C14_Witness ==
    /\ Resolved
    /\ resolves = 2
    /\ Len(edits) = 1
    /\ \E i, j, k \in 1..Len(notes) :
        /\ notes[i].guid = edits[1].source_guid
        /\ notes[j].display_name = edits[1].target_name
        /\ Resolvable(notes[j])
        /\ References(notes[i], notes[j].display_name) = 0
        /\ IncomingFrom(notes[j], notes[i]) = 0
        /\ References(notes[k], notes[j].display_name) = 1
        /\ IncomingFrom(notes[j], notes[k]) = 1


\* the class of the loaded note with the guid
ClassOfGuid(guid) == notes[CHOOSE k \in 1..Len(notes) : notes[k].guid = guid].note_class

\* every resolved relationship of the list has a target of the class
ResolvesOnlyTo(rels, note_class) ==
    \A k \in 1..Len(rels) :
        rels[k].target_guid # None => ClassOfGuid(rels[k].target_guid) = note_class

\* C15: a relationship decoded from a person-reference field resolves only
\* to a Person and one decoded from an event-reference field only to an
\* Event, also when a Person and an Event share a name.
C15_SpacesNeverCrossed ==
    Resolved =>
        \A i \in 1..Len(notes) :
            /\ ResolvesOnlyTo(notes[i].related_persons, "Person")
            /\ ResolvesOnlyTo(notes[i].related_events, "Event")


\* a Person or an Event is loaded under the guid
EntityLoaded(guid) ==
    \E k \in 1..Len(notes) :
        notes[k].guid = guid /\ notes[k].note_class \in {"Person", "Event"}

\* a Person or an Event is loaded under the name
EntityNamed(name) ==
    \E k \in 1..Len(notes) :
        notes[k].display_name = name /\ notes[k].note_class \in {"Person", "Event"}

\* the target names of a list of relationships
TargetNames(rels) == [k \in 1..Len(rels) |-> rels[k].target_name]

\* the relationships of note i, one after the other
Outgoing(i) == get_all_outgoing_relationships(notes[i])

\* C16: every target_guid is null or the guid of a loaded Person or Event,
\* never of a QA or a Cloze; it is null before resolution; resolution
\* removes no relationship, and a reference that names no Person and no
\* Event stays in the outgoing list of its source with target_guid null.
C16_TargetGuid ==
    /\ \A i \in 1..Len(notes) : \A k \in 1..Len(Outgoing(i)) :
           Outgoing(i)[k].target_guid = None \/ EntityLoaded(Outgoing(i)[k].target_guid)
    /\ pc = "loaded" =>
           \A i \in 1..Len(notes) : \A k \in 1..Len(Outgoing(i)) :
               Outgoing(i)[k].target_guid = None
    /\ Resolved =>
           LET loaded == load_all_notes(graph_tables, <<>>)
           IN /\ Len(notes) = Len(loaded)
              /\ \A i \in 1..Len(notes) :
                  /\ TargetNames(notes[i].related_persons) = TargetNames(loaded[i].related_persons)
                  /\ TargetNames(notes[i].related_events) = TargetNames(loaded[i].related_events)
                  /\ \A k \in 1..Len(Outgoing(i)) :
                         ~EntityNamed(Outgoing(i)[k].target_name)
                             => Outgoing(i)[k].target_guid = None

\* after resolution one reference has the guid of a Person and another,
\* which names a QA and no entity, is still listed with target_guid null
C16_Witness ==
    /\ Resolved
    /\ \E i \in 1..Len(notes) : \E k, l \in 1..Len(Outgoing(i)) :
        /\ Outgoing(i)[k].target_guid # None
        /\ EntityLoaded(Outgoing(i)[k].target_guid)
        /\ Outgoing(i)[l].target_guid = None
        /\ \E q \in 1..Len(notes) :
              notes[q].note_class = "QA" /\ notes[q].display_name = Outgoing(i)[l].target_name


\* some row of some table lacks its guid: the column is absent or the
\* value is blank
SomeRowLacksGuid ==
    \E f \in TableNames : \E k \in 1..Len(graph_tables[f].rows) :
        \/ "guid" \notin DOMAIN graph_tables[f].rows[k]
        \/ Len(strip(graph_tables[f].rows[k]["guid"])) = 0

\* C20: when a row of a loaded table lacks its guid the load is fatal: the
\* run never gets past the load, so no such row is skipped or loaded.
C20_MissingGuidFatal ==
    SomeRowLacksGuid => pc \notin {"loaded", "resolved", "printed"}


(***************************************************************************)
(* Tags: validate_tag, validate_entity_tags and create_tag of              *)
(* tools/neo4j_query.py.  The database is the set of the names of its Tag  *)
(* nodes.                                                                  *)
(***************************************************************************)

\* s.split(sep) for a separator of any length
RECURSIVE split_sep(_, _)
split_sep(s, sep) ==
    IF ~Contains(s, sep) THEN <<s>>
    ELSE LET i == SetMin({k \in 1..Len(s) - Len(sep) + 1 : SubSeq(s, k, k + Len(sep) - 1) = sep})
         IN <<SubSeq(s, 1, i - 1)>> \o split_sep(SubSeq(s, i + Len(sep), Len(s)), sep)

\* VALID_REGIONS, in the order of its keys
VALID_REGIONS ==
    <<[continent |-> "Europe", subs |-> <<"Western", "Eastern", "Northern", "Southern", "Central">>],
      [continent |-> "Asia", subs |-> <<"East", "Southeast", "South", "Central", "West">>],
      [continent |-> "Africa", subs |-> <<"North", "West", "East", "Central", "Southern">>],
      [continent |-> "Americas", subs |-> <<"North", "Central", "South", "Caribbean">>],
      [continent |-> "Oceania", subs |-> <<"Australia", "Pacific">>],
      [continent |-> "Global", subs |-> <<>>]>>

VALID_THEMES == <<"War", "Politics", "Economy", "Society", "Culture", "Science", "Religion">>

\* VALID_REGIONS.keys()
continents == [k \in 1..Len(VALID_REGIONS) |-> VALID_REGIONS[k].continent]

\* VALID_REGIONS[continent]
valid_subs(continent) == VALID_REGIONS[IndexOf(continents, continent)].subs

\* the Region branch of validate_tag without the check of the sub-region
validate_region_AnySub(parts) ==
    IF Len(parts) < 3 \/ Len(parts) > 4
    THEN <<FALSE, "Region tags must be UH::Region::<continent> or UH::Region::<continent>::<sub-region>">>
    ELSE IF ~IsIn(continents, parts[3])
    THEN <<FALSE, "Unknown continent '" \o parts[3] \o "'. Valid: " \o join(continents, ", ")>>
    ELSE <<TRUE, "">>

\* the Region branch of validate_tag
validate_region(parts) ==
    IF Len(parts) < 3 \/ Len(parts) > 4
    THEN <<FALSE, "Region tags must be UH::Region::<continent> or UH::Region::<continent>::<sub-region>">>
    ELSE IF ~IsIn(continents, parts[3])
    THEN <<FALSE, "Unknown continent '" \o parts[3] \o "'. Valid: " \o join(continents, ", ")>>
    ELSE IF Len(parts) = 4 /\ Len(valid_subs(parts[3])) = 0
    THEN <<FALSE, "'" \o parts[3] \o "' has no sub-regions">>
    ELSE IF Len(parts) = 4 /\ ~IsIn(valid_subs(parts[3]), parts[4])
    THEN <<FALSE, "Unknown sub-region '" \o parts[4] \o "' for " \o parts[3]
                      \o ". Valid: " \o join(valid_subs(parts[3]), ", ")>>
    ELSE <<TRUE, "">>

\* the Period branch of validate_tag
validate_period(parts) ==
    IF Len(parts) # 3 THEN <<FALSE, "Period tags must be UH::Period::<period>">>
    ELSE IF parts[3] = "Prehistory" THEN <<TRUE, "">>
    ELSE IF Contains(parts[3], "_Millennium_BCE") \/ Contains(parts[3], "_Century")
    THEN <<TRUE, "">>
    ELSE <<FALSE, "Invalid period '" \o parts[3]
                      \o "'. Use format like '19th_Century', '5th_Century_BCE', or 'Prehistory'">>

\* the Theme branch of validate_tag
validate_theme(parts) ==
    IF Len(parts) # 3 THEN <<FALSE, "Theme tags must be UH::Theme::<theme>">>
    ELSE IF ~IsIn(VALID_THEMES, parts[3])
    THEN <<FALSE, "Unknown theme '" \o parts[3] \o "'. Valid: " \o join(VALID_THEMES, ", ")
                      \o ". New themes require discussion.">>
    ELSE <<TRUE, "">>

\* validate_tag after the split: <<is_valid, error_message>>
validate_parts(parts) ==
    IF Len(parts) < 3
    THEN <<FALSE, "Tag must have at least 3 parts (e.g., UH::Region::Europe)">>
    ELSE IF parts[2] = "Region" THEN validate_region(parts)
    ELSE IF parts[2] = "Period" THEN validate_period(parts)
    ELSE IF parts[2] = "Theme" THEN validate_theme(parts)
    ELSE <<FALSE, "Unknown category '" \o parts[2] \o "'. Valid: Region, Period, Theme">>

\* validate_tag: <<is_valid, error_message>>
validate_tag(name) ==
    IF ~startswith(name, "UH::") THEN <<FALSE, "Tag must start with 'UH::'">>
    ELSE validate_parts(split_sep(name, "::"))

\* validate_entity_tags: the warnings printed for the tags from tag k on
RECURSIVE validate_entity_tags_from(_, _)
validate_entity_tags_from(tags, k) ==
    IF k > Len(tags) THEN <<>>
    ELSE (IF validate_tag(tags[k])[1] THEN <<>>
          ELSE <<"Warning: Invalid tag '" \o tags[k] \o "'. " \o validate_tag(tags[k])[2]>>)
         \o validate_entity_tags_from(tags, k + 1)

\* validate_entity_tags: the warnings it prints
validate_entity_tags(tags) == validate_entity_tags_from(tags, 1)


(***************************************************************************)
(* Commands of neo4j_query.py on tags, run one after the other against the *)
(* same database.                                                          *)
(***************************************************************************)

\* a node of the database with its label and name
Node(label, name) == [label |-> label, name |-> name, tag |-> None]

\* a HAS_TAG relationship from the entity with the name to the tag
HasTag(name, tag) == [label |-> "HAS_TAG", name |-> name, tag |-> tag]

\* args.name of create-person
PersonName == "Ajax"

RegionSegments == {"Europe", "Global", "Mars"}
PeriodSegments == {"Prehistory", "19th_Century", "5th_Century_BCE", "2nd_Millennium_BCE", "19th_Century_foo", "2nd_Millennium_BCEx", "Century"}
ThemeSegments == {"War", "Magic"}
LastSegments == {<<>>, <<"Central">>, <<"Caribbean">>, <<"">>, <<"Central", "x">>}

\* the tags handed to validate_tag and create_tag
TagNames ==
    {join(<<"UH", c, s>> \o t, "::") :
        c \in {"Region", "Period", "Theme", "Era"},
        s \in RegionSegments \cup PeriodSegments \cup ThemeSegments,
        t \in LastSegments}
    \cup {"UH", "UH::Region", "UH::", "Region::Europe", "XX::Region::Europe", "UH:Region:Europe"}

\* the tags handed to create_person
TagLists ==
    {<<>>, <<"UH::Theme::War">>, <<"UH::Theme::Magic", "UH::Theme::War">>,
     <<"UH::Region::Europe", "UH::Region::Mars">>, <<"mars">>}

\* the database the commands start from
Databases ==
    {{}, {Node("Tag", "UH::Region::Europe")}, {Node("Person", "ajax")},
     {Node("Tag", "UH::Theme::War"), Node("Person", "Homer"), HasTag("Homer", "UH::Theme::War")}}

InitTag ==
    /\ DateIdle
    /\ RefIdle
    /\ ValIdle
    /\ FmtIdle
    /\ GraphIdle
    /\ OrdIdle
    /\ auto_fix = FALSE
    /\ exit_code = None
    /\ pc = "start"
    /\ tag_name \in TagNames
    /\ entity_tags \in TagLists
    /\ db \in Databases
    /\ validity = None
    /\ stderr = <<>>

\* validate_tag(tag_name)
ValidateTag ==
    /\ pc = "start"
    /\ validity' = validate_tag(tag_name)
    /\ pc' = "tag_validated"
    /\ UNCHANGED <<runVars, tag_name, entity_tags, db, stderr, fmtVars, graphVars, dateVars, refVars, valVars, ordVars>>

\* create_tag taking no tag for a Theme tag
is_theme_tag_Never(name) == FALSE

\* create_tag: tag_name.startswith("UH::Theme::")
is_theme_tag(name) == startswith(name, "UH::Theme::")

\* create-tag: create_tag(driver, tag_name)
CreateTag ==
    /\ pc = "start"
    /\ validity' = IF is_theme_tag(tag_name) THEN validity ELSE validate_tag(tag_name)
    /\ IF is_theme_tag(tag_name)
       THEN /\ stderr' = Append(stderr, "Error: Theme tags cannot be created directly. They are auto-created when used on entities. To propose a new theme, open a GitHub issue.")
            /\ exit_code' = 1
            /\ pc' = "tag_refused"
            /\ UNCHANGED db
       ELSE IF ~validate_tag(tag_name)[1]
       THEN /\ stderr' = Append(stderr, "Error: Invalid tag. " \o validate_tag(tag_name)[2])
            /\ exit_code' = 1
            /\ pc' = "tag_refused"
            /\ UNCHANGED db
       ELSE IF Node("Tag", tag_name) \in db
       THEN /\ stderr' = Append(stderr, "Error: Tag '" \o tag_name \o "' already exists.")
            /\ exit_code' = 1
            /\ pc' = "tag_refused"
            /\ UNCHANGED db
       ELSE /\ db' = db \cup {Node("Tag", tag_name)}
            /\ exit_code' = 0
            /\ pc' = "tag_created"
            /\ UNCHANGED stderr
    /\ UNCHANGED <<auto_fix, tag_name, entity_tags, fmtVars, graphVars, dateVars, refVars, valVars, ordVars>>

\* MATCH (p:Person) WHERE toLower(p.name) = toLower($name)
person_exists(nodes, name) ==
    \E n \in nodes : n.label = "Person" /\ lower(n.name) = lower(name)

\* the Tag nodes and HAS_TAG relationships create_person adds for its tags
tags_attached(name, tags) ==
    {Node("Tag", tags[k]) : k \in 1..Len(tags)} \cup {HasTag(name, tags[k]) : k \in 1..Len(tags)}

\* create-person: create_person(driver, name, ..., tags)
CreatePerson ==
    /\ pc \in {"start", "tag_refused", "tag_created"}
    /\ IF person_exists(db, PersonName)
       THEN /\ stderr' = (stderr \o validate_entity_tags(entity_tags))
                             \o <<"Error: Person '" \o PersonName \o "' already exists.">>
            /\ exit_code' = 1
            /\ pc' = "person_exists"
            /\ UNCHANGED db
       ELSE /\ stderr' = stderr \o validate_entity_tags(entity_tags)
            /\ db' = (db \cup {Node("Person", PersonName)}) \cup tags_attached(PersonName, entity_tags)
            /\ exit_code' = 0
            /\ pc' = "person_created"
    /\ UNCHANGED <<auto_fix, tag_name, entity_tags, validity, fmtVars, graphVars, dateVars, refVars, valVars, ordVars>>

NextTag == ValidateTag \/ CreateTag \/ CreatePerson

SpecTag == InitTag /\ [][NextTag]_vars


(***************************************************************************)
(* Claims about tags                                                       *)
(***************************************************************************)

\* the segments of the validated tag
Segments == split_sep(tag_name, "::")

\* validate_tag has been applied to a tag of the category
ValidatedTagOf(category) ==
    /\ pc = "tag_validated"
    /\ startswith(tag_name, "UH::")
    /\ Len(Segments) >= 2
    /\ Segments[2] = category

\* the fixed continents and the fixed sub-regions of each
SubRegionsOf ==
    [c \in {"Europe", "Asia", "Africa", "Americas", "Oceania", "Global"} |->
        CASE c = "Europe" -> {"Western", "Eastern", "Northern", "Southern", "Central"}
          [] c = "Asia" -> {"East", "Southeast", "South", "Central", "West"}
          [] c = "Africa" -> {"North", "West", "East", "Central", "Southern"}
          [] c = "Americas" -> {"North", "Central", "South", "Caribbean"}
          [] c = "Oceania" -> {"Australia", "Pacific"}
          [] c = "Global" -> {}]

\* C17: validate_tag accepts a Region tag exactly when it has 3 or 4
\* segments, segment 3 is a fixed continent and segment 4, if present, is a
\* fixed sub-region of that continent, Global having none;
\* UH::Region::Europe::Central validates and UH::Region::Mars fails.
C17_RegionTag ==
    /\ ValidatedTagOf("Region") =>
           (validity[1] <=>
               /\ Len(Segments) \in {3, 4}
               /\ Segments[3] \in DOMAIN SubRegionsOf
               /\ Len(Segments) = 4 => Segments[4] \in SubRegionsOf[Segments[3]])
    /\ pc = "tag_validated" /\ tag_name = "UH::Region::Europe::Central" => validity[1]
    /\ pc = "tag_validated" /\ tag_name = "UH::Region::Mars" => ~validity[1]

\* a Region tag of four segments has been validated and found valid
C17_Witness ==
    /\ ValidatedTagOf("Region")
    /\ tag_name = "UH::Region::Europe::Central"
    /\ validity = <<TRUE, "">>

\* C18: validate_tag accepts a Period tag exactly when it has 3 segments
\* and its value is Prehistory or ends with _Century, _Century_BCE or
\* _Millennium_BCE after a prefix; a value in which other text follows
\* _Century or _Millennium_BCE is rejected.
C18_PeriodTag ==
    ValidatedTagOf("Period") =>
        (validity[1] <=>
            /\ Len(Segments) = 3
            /\ \/ Segments[3] = "Prehistory"
               \/ \E suffix \in {"_Century", "_Century_BCE", "_Millennium_BCE"} :
                      endswith(Segments[3], suffix) /\ Len(Segments[3]) > Len(suffix))


\* the lines a step has added to sys.stderr
Printed == SubSeq(stderr', Len(stderr) + 1, Len(stderr'))

\* C19: create_tag of a tag that starts with UH::Theme::, valid or not, and
\* of a tag that validate_tag rejects ends with exit code 1 and leaves the
\* database as it was.  Attaching tags to a new entity never fails: the
\* command fails only when the entity exists already; otherwise every tag,
\* invalid or unseen, gets its Tag node and is linked to the entity, and
\* the only output on stderr is one warning for each invalid tag.
C19_TagCreationAsymmetry ==
    [][/\ (/\ pc' \in {"tag_created", "tag_refused"}
           /\ startswith(tag_name, "UH::Theme::") \/ ~validate_tag(tag_name)[1])
          => (exit_code' = 1 /\ db' = db)
       /\ pc' \in {"person_created", "person_exists"}
          => /\ exit_code' = 1 <=> person_exists(db, PersonName)
             /\ exit_code' # 1 =>
                 /\ exit_code' = 0
                 /\ \A k \in 1..Len(entity_tags) :
                        /\ Node("Tag", entity_tags[k]) \in db'
                        /\ HasTag(PersonName, entity_tags[k]) \in db'
                 /\ \A k \in 1..Len(Printed) : startswith(Printed[k], "Warning: Invalid tag '")
                 /\ Len(Printed) = Cardinality({k \in 1..Len(entity_tags) : ~validate_tag(entity_tags[k])[1]})
      ]_vars

\* create_tag has refused a valid Theme tag and left the database empty;
\* then a person was created with that tag, unseen until then, and with an
\* invalid one: one warning, both Tag nodes created, exit code 0
C19_Witness ==
    /\ pc = "person_created"
    /\ tag_name = "UH::Theme::War"
    /\ validate_tag(tag_name)[1]
    /\ entity_tags = <<"UH::Theme::Magic", "UH::Theme::War">>
    /\ Len(stderr) = 2
    /\ startswith(stderr[1], "Error: Theme tags cannot be created directly.")
    /\ startswith(stderr[2], "Warning: Invalid tag 'UH::Theme::Magic'.")
    /\ db = {Node("Person", PersonName)} \cup tags_attached(PersonName, entity_tags)
    /\ exit_code = 0


(***************************************************************************)
(* Claims about the rewritten tables                                       *)
(***************************************************************************)

\* the reference validator has applied its fixes
FixesApplied == pc \in {"fixed_person", "fixed_event"}

\* the rows create_missing_people / create_missing_events appended
StubRows(rows) == SelectSeq(rows, LAMBDA r : r.guid = "")

\* C21: after an auto-fix rewrite of a table by the format validator, by
\* apply_fixes of the reference validator or by the append of a stub row,
\* every cell is written in double quotes: check_quoting finds nothing.
C21_FullyQuoted ==
    /\ pc = "fmt_fixed" => check_quoting(data_file.name, readlines(data_file)) = <<>>
    /\ FixesApplied /\ Truthy(fix)
           => check_quoting(data_file.name, readlines(data_file)) = <<>>
    /\ FixesApplied =>
           \A r \in {StubRows(person_rows \o event_rows)[k] :
                        k \in 1..Len(StubRows(person_rows \o event_rows))} :
               ~has_unquoted_field(strip(stub_line(r)), 1, FALSE, TRUE)


(***************************************************************************)
(* Claims about the separator of a reference                               *)
(***************************************************************************)

\* a text has been decoded into a head and a description
DecodedWithDescription ==
    /\ pc = "ref_text_done"
    /\ ColonStarts(strip(ref_text)) \cup DashStarts(strip(ref_text)) # {}
    /\ decoded[4] # None

\* the trimmed text after position i of the trimmed reference
TextAfter(i) == strip(SubSeq(strip(ref_text), i + 1, Len(strip(ref_text))))

CandidateNames == {"Homer", "Homes", "homer", "Nero", "Neron"}

FuzzyNames == {"Homer", "Homex", "HOMER", "Nerox", "Nexo", "x", ""}

\* the dicts of at most n candidates, in the order of their insertion
RECURSIVE CandidateDicts(_)
CandidateDicts(n) ==
    IF n = 0 THEN {<<>>}
    ELSE CandidateDicts(n - 1)
             \cup {Append(d, Row("g", c, "", "")) :
                      d \in CandidateDicts(n - 1),
                      c \in CandidateNames}

InitFuzzy ==
    /\ ExtIdle
    /\ DateIdle
    /\ RefIdle
    /\ pc = "fuzzy_start"
    /\ person_rows = <<>>
    /\ event_rows = <<>>
    /\ people \in {d \in CandidateDicts(MaxCandidates) :
                      \A i, j \in 1..Len(d) : d[i].name = d[j].name => i = j}
    /\ events = <<>>
    /\ errors = <<>>
    /\ field \in FuzzyNames
    /\ fix = None

\* best_match = fuzzy_match(name, candidates)
FuzzyMatch ==
    /\ pc = "fuzzy_start"
    /\ fix' = fuzzy_match(field, people)
    /\ pc' = "fuzzy_done"
    /\ UNCHANGED <<person_rows, event_rows, people, events, errors, field, dateVars, refVars, extVars>>

NextFuzzy == FuzzyMatch

SpecFuzzy == InitFuzzy /\ [][NextFuzzy]_vars

\* the similarity of the name and the k-th candidate
Sim(k) == ratio(lower(field), lower(people[k].name))

\* the candidates at or above the threshold
Accepted == {k \in 1..Len(people) : RatGE(Sim(k), fuzzy_threshold)}

\* the candidates of maximal similarity
Closest == {k \in 1..Len(people) : \A j \in 1..Len(people) : RatGE(Sim(k), Sim(j))}

FuzzyTargets(text) ==
    {k \in 1..Len(notes) :
        /\ notes[k].note_class \in {"Person", "Event"}
        /\ RatGE(ratio(lower(text), lower(notes[k].display_name)), fuzzy_threshold)}

\* C24: after resolution a relationship whose target_name is the name of no
\* Person and no Event but matches one at or above the threshold carries the
\* guid of such an entity, whose incoming list holds the relationship.
C24_FuzzyFallback ==
    Resolved =>
        \A i \in 1..Len(notes) : \A k \in 1..Len(Outgoing(i)) :
            LET rel == Outgoing(i)[k]
            IN (~EntityNamed(rel.target_name) /\ FuzzyTargets(rel.target_name) # {})
                   => \E t \in FuzzyTargets(rel.target_name) :
                          /\ rel.target_guid = notes[t].guid
                          /\ IncomingFrom(notes[t], notes[i]) > 0


(***************************************************************************)
(* A fix run of the reference validator over several tables: main()        *)
(* validates the tables one after the other, prints the findings, and with *)
(* --auto-fix has apply_fixes read, fix and rewrite every table that has   *)
(* fixes, before the rows of the missing people are appended.  A table is  *)
(* its name and the cells of its column "related person 1", row by row.    *)
(***************************************************************************)

OrderColumn == "related person 1"

OrderNames == <<"a.csv", "b.csv">>

OrderCells ==
    {"", "Homex (701)", "Nobody (1~2)", "Nobody (3~4): x"}

\* the columns of at most n cells
RECURSIVE CellColumns(_)
CellColumns(n) ==
    IF n = 0 THEN {<<>>}
    ELSE CellColumns(n - 1)
             \cup {Append(c, v) : c \in {d \in CellColumns(n - 1) : Len(d) = n - 1},
                                  v \in OrderCells}

\* fixes[(row_num, column)] = fix, when the validation returned a fix
fixes_with(fixes, row_num, column, r) ==
    IF Truthy(r.fix)
    THEN Append(fixes, [row_num |-> row_num, column |-> column, fix |-> r.fix])
    ELSE fixes

\* validate_csv_file: the findings and the fixes of the cells from the k-th
RECURSIVE validate_cells(_, _, _, _, _, _)
cells_after(known, r, fixes, name, cells, k) ==
    validate_cells(known, r.errors, fixes_with(fixes, k + 1, OrderColumn, r), name, cells, k + 1)

validate_cells(known, errs, fixes, name, cells, k) ==
    IF k > Len(cells) THEN [errors |-> errs, fixes |-> fixes]
    ELSE cells_after(known,
                     validate_person_reference(known, errs, name, k + 1, OrderColumn, cells[k]),
                     fixes, name, cells, k)

validate_csv_file(known, errs, table) ==
    validate_cells(known, errs, <<>>, table.name, table.cells, 1)

\* apply_fixes, a cell as it is read: only the cell of the first data row
\* is looked up in the fixes
fixed_cell_FirstRow(fixes, row_num, column, value) ==
    IF row_num = 2 /\ \E k \in 1..Len(fixes) : fixes[k].row_num = row_num /\ fixes[k].column = column
    THEN (CHOOSE f \in {fixes[k] : k \in 1..Len(fixes)} :
              f.row_num = row_num /\ f.column = column).fix
    ELSE value

\* apply_fixes, a cell as it is read: row[column] = fixes[(row_num, column)]
fixed_cell(fixes, row_num, column, value) ==
    IF \E k \in 1..Len(fixes) : fixes[k].row_num = row_num /\ fixes[k].column = column
    THEN (CHOOSE f \in {fixes[k] : k \in 1..Len(fixes)} :
              f.row_num = row_num /\ f.column = column).fix
    ELSE value

\* all_fixes[csv_file] = fixes, when the table has fixes
all_fixes_with(fixes, name, r) ==
    IF Len(r.fixes) > 0 THEN Append(fixes, [name |-> name, fixes |-> r.fixes]) ELSE fixes

\* main: the loop over csv_files from the i-th table, its findings and fixes
RECURSIVE validate_tables(_, _, _, _, _)
tables_after(known, r, fixes, tables, i) ==
    validate_tables(known, r.errors, all_fixes_with(fixes, tables[i].name, r), tables, i + 1)

validate_tables(known, errs, fixes, tables, i) ==
    IF i > Len(tables) THEN [errors |-> errs, fixes |-> fixes]
    ELSE tables_after(known, validate_csv_file(known, errs, tables[i]), fixes, tables, i)

\* the state of main after a table has been validated
table_validated(r, name) ==
    /\ errors' = r.errors
    /\ all_fixes' = all_fixes_with(all_fixes, name, r)

\* the state of a run after all its tables have been validated
tables_validated(r) ==
    /\ errors' = r.errors
    /\ all_fixes' = r.fixes

InitOrder ==
    /\ DateIdle
    /\ RefIdle
    /\ FmtIdle
    /\ GraphIdle
    /\ TagIdle
    /\ pc = "order_start"
    /\ person_rows = PersonRowsA
    /\ event_rows = EventRowsA
    /\ people = <<>>
    /\ events = <<>>
    /\ errors = <<>>
    /\ field = None
    /\ fix = None
    /\ auto_fix \in BOOLEAN
    /\ exit_code = None
    /\ data_dir \in {[i \in 1..Len(OrderNames) |-> [name |-> OrderNames[i], cells |-> c[i]]] :
                        c \in {d \in [1..Len(OrderNames) -> CellColumns(MaxCells)] :
                                  Len(d[1]) < MaxCells}}
    /\ all_fixes = <<>>
    /\ read_rows = <<>>
    /\ file_pos = [validated |-> 0, applied |-> 0]

\* main: validator.load_people(), validator.load_events()
LoadStore ==
    /\ pc = "order_start"
    /\ people' = load_rows(person_rows, people)
    /\ events' = load_rows(event_rows, events)
    /\ pc' = "order_validating"
    /\ UNCHANGED <<person_rows, event_rows, errors, field, fix, runVars, ordVars, fmtVars, graphVars, tagVars, dateVars, refVars>>

\* main: fixes = validator.validate_csv_file(csv_file) for the next table
ValidateCsvFile ==
    /\ pc = "order_validating"
    /\ file_pos.validated < Len(data_dir)
    /\ table_validated(validate_csv_file(people, errors, data_dir[file_pos.validated + 1]),
                       data_dir[file_pos.validated + 1].name)
    /\ file_pos' = [file_pos EXCEPT !.validated = @ + 1]
    /\ UNCHANGED <<pc, person_rows, event_rows, people, events, field, fix, runVars, data_dir, read_rows, fmtVars, graphVars, tagVars, dateVars, refVars>>

\* main: validator.print_errors() and the test that opens the fix pass
PrintErrorsOfRun ==
    /\ pc = "order_validating"
    /\ file_pos.validated = Len(data_dir)
    /\ IF auto_fix /\ (Len(all_fixes) > 0 \/ any_missing(errors))
       THEN pc' = "order_applying" /\ UNCHANGED exit_code
       ELSE pc' = "order_exited" /\ exit_code' = 0
    /\ UNCHANGED <<valVars, auto_fix, ordVars, fmtVars, graphVars, tagVars, dateVars, refVars>>

\* the table of the name
table_of(name) == CHOOSE i \in 1..Len(data_dir) : data_dir[i].name = name

\* apply_fixes, first half: the rows are read and the fixes put into them
ApplyFixesRead ==
    /\ pc = "order_applying"
    /\ file_pos.applied < Len(all_fixes)
    /\ LET entry == all_fixes[file_pos.applied + 1]
           cells == data_dir[table_of(entry.name)].cells
       IN read_rows' = [k \in 1..Len(cells) |->
                           fixed_cell(entry.fixes, k + 1, OrderColumn, cells[k])]
    /\ pc' = "order_writing"
    /\ UNCHANGED <<valVars, runVars, data_dir, all_fixes, file_pos, fmtVars, graphVars, tagVars, dateVars, refVars>>

\* apply_fixes, second half: the table is opened for writing and the rows
\* are written
ApplyFixesWrite ==
    /\ pc = "order_writing"
    /\ LET entry == all_fixes[file_pos.applied + 1]
       IN data_dir' = [data_dir EXCEPT ![table_of(entry.name)].cells = read_rows]
    /\ file_pos' = [file_pos EXCEPT !.applied = @ + 1]
    /\ pc' = "order_applying"
    /\ UNCHANGED <<valVars, runVars, all_fixes, read_rows, fmtVars, graphVars, tagVars, dateVars, refVars>>

\* main: create_missing_people(), create_missing_events(), the end of main
CreateMissing ==
    /\ pc = "order_applying"
    /\ file_pos.applied = Len(all_fixes)
    /\ person_rows' = person_rows \o missing_rows(errors, "missing_person", {})
    /\ event_rows' = event_rows \o missing_rows(errors, "missing_event", {})
    /\ exit_code' = 0
    /\ pc' = "order_exited"
    /\ UNCHANGED <<people, events, errors, field, fix, auto_fix, ordVars, fmtVars, graphVars, tagVars, dateVars, refVars>>

\* a later run without --auto-fix over the tables as they are now: the
\* tables are loaded and every table is validated
ValidateAgainOfRun ==
    /\ pc = "order_exited"
    /\ people' = load_rows(person_rows, <<>>)
    /\ events' = load_rows(event_rows, <<>>)
    /\ tables_validated(validate_tables(load_rows(person_rows, <<>>), <<>>, <<>>, data_dir, 1))
    /\ pc' = "order_revalidated"
    /\ UNCHANGED <<person_rows, event_rows, field, fix, runVars, data_dir, read_rows, file_pos, fmtVars, graphVars, tagVars, dateVars, refVars>>

NextOrder ==
    \/ LoadStore \/ ValidateCsvFile \/ PrintErrorsOfRun
    \/ ApplyFixesRead \/ ApplyFixesWrite \/ CreateMissing
    \/ ValidateAgainOfRun

SpecOrder == InitOrder /\ [][NextOrder]_vars

\* a step that writes a table
Writes ==
    data_dir' # data_dir \/ person_rows' # person_rows \/ event_rows' # event_rows

\* the findings and the fixes of all the tables
Collected == validate_tables(people, <<>>, <<>>, data_dir, 1)

\* the fixes collected for the i-th table
FixesOf(i) ==
    UNION {{all_fixes[k].fixes[j] : j \in 1..Len(all_fixes[k].fixes)} :
              k \in {n \in 1..Len(all_fixes) : all_fixes[n].name = data_dir[i].name}}

\* C25: no table is written before every table has been validated and the
\* findings of all of them are collected; a step that writes a table writes
\* all of its rows, every fix collected for the table in its cell and every
\* other cell as it was.
C25_WriteAfterValidation ==
    /\ [](file_pos.applied = 0 /\ pc \in {"order_applying", "order_writing"}
             => /\ file_pos.validated = Len(data_dir)
                /\ errors = Collected.errors
                /\ all_fixes = Collected.fixes)
    /\ [][Writes => /\ pc \in {"order_applying", "order_writing"}
                    /\ file_pos.validated = Len(data_dir)
                    /\ errors' = errors /\ all_fixes' = all_fixes
                    /\ \A i \in 1..Len(data_dir) :
                           data_dir'[i] # data_dir[i] =>
                               /\ Len(data_dir'[i].cells) = Len(data_dir[i].cells)
                               /\ \A k \in 1..Len(data_dir[i].cells) :
                                      IF \E f \in FixesOf(i) : f.row_num = k + 1
                                      THEN \E f \in FixesOf(i) :
                                               f.row_num = k + 1 /\ data_dir'[i].cells[k] = f.fix
                                      ELSE data_dir'[i].cells[k] = data_dir[i].cells[k]]_vars

\* both tables have been rewritten, the second with a fix in each of its rows
C25_Witness ==
    /\ pc = "order_exited"
    /\ file_pos.applied = 2
    /\ Len(all_fixes[2].fixes) = 2
    /\ data_dir[2].cells = <<all_fixes[2].fixes[1].fix, all_fixes[2].fixes[2].fix>>


(***************************************************************************)
(* Claims about the quoting check                                          *)
(***************************************************************************)

\* the text of a field as the line holds it is enclosed in double quotes
Enclosed(text) ==
    Len(text) >= 2 /\ Head(text) = "\"" /\ SubSeq(text, Len(text), Len(text)) = "\""

\* some field of the header or of a row is written without quotes
SomeFieldBare(file) ==
    \/ \E k \in 1..Len(fieldnames) : ~Enclosed(write_field(fieldnames[k], file.quoting))
    \/ \E r \in 1..Len(file.rows) : \E k \in 1..Len(fieldnames) :
           ~Enclosed(write_field(file.rows[r][fieldnames[k]], file.quoting))

QuotingFindings == SelectSeq(fmt_errors, LAMBDA e : e.error_type = "quoting")

\* C26: the validation of a file reports at most one quoting finding, and
\* reports one exactly when some field of some line of the file is not
\* enclosed in double quotes, an empty field written as nothing between two
\* commas included.
C26_QuotingFinding ==
    pc = "fmt_validated" =>
        /\ Len(QuotingFindings) <= 1
        /\ Len(QuotingFindings) = 1 <=> SomeFieldBare(data_file)


(***************************************************************************)
(* Claims about the findings of one reference field                        *)
(***************************************************************************)

FindingKinds ==
    {"unparseable", "date_mismatch", "format_issue", "name_mismatch",
     "missing_person", "missing_event"}

\* C27: the validation of one non-blank reference field appends at most one
\* finding, of one of the kinds unparseable, date_mismatch, format_issue,
\* name_mismatch and missing_person (person field) or missing_event (event
\* field); it returns a fix exactly when the finding carries a suggested
\* fix, and then that fix.
C27_OneFinding ==
    (Validated /\ Len(strip(field)) > 0) =>
        /\ Len(errors) <= 1
        /\ \A k \in 1..Len(errors) :
               /\ errors[k].error_type \in FindingKinds
               /\ errors[k].error_type = "missing_person" => pc = "validated_person"
               /\ errors[k].error_type = "missing_event" => pc = "validated_event"
        /\ fix # None <=> (Len(errors) = 1 /\ errors[1].suggested_fix # None)
        /\ fix # None => fix = errors[1].suggested_fix

\* a finding with a fix, which the validation returned
C27_Witness ==
    /\ pc = "validated_person"
    /\ field = "Napolean Bonaparte (1769-1821): ally"
    /\ Len(errors) = 1
    /\ errors[1].error_type = "name_mismatch"
    /\ fix = errors[1].suggested_fix
    /\ fix # None


(***************************************************************************)
(* sort_row_references applied to the rows of a table                      *)
(***************************************************************************)

SlotTexts == {"", "  ", "Zed: x", "ann (1~2)", "Ann", " Bob"}

EventSlotTexts == {"", "Rome", "Fall (476)"}

\* a row with the texts in its first person slots and its first event slots
SlotRow(persons, evts) ==
    [c \in {fieldnames[k] : k \in 1..Len(fieldnames)} |->
        IF c = "guid" THEN "g1"
        ELSE IF c = "name" THEN " a"
        ELSE IF c = "tags" THEN "y, x"
        ELSE IF IsIn(person_cols, c) /\ IndexOf(person_cols, c) <= Len(persons)
        THEN persons[IndexOf(person_cols, c)]
        ELSE IF IsIn(event_cols, c) /\ IndexOf(event_cols, c) <= Len(evts)
        THEN evts[IndexOf(event_cols, c)]
        ELSE ""]

InitSort ==
    /\ DateIdle
    /\ RefIdle
    /\ ValIdle
    /\ RunIdle
    /\ GraphIdle
    /\ TagIdle
    /\ OrdIdle
    /\ pc = "sort_start"
    /\ \E persons \in [1..MaxPersonSlots -> SlotTexts], evts \in [1..MaxEventSlots -> EventSlotTexts] :
           data_file = [name |-> "person.csv", quoting |-> "all",
                        rows |-> <<SlotRow(persons, evts)>>]
    /\ data_read = None
    /\ fmt_errors = <<>>

\* for row in rows: sort_row_references(row)
SortRowReferences ==
    /\ pc = "sort_start"
    /\ data_read' = data_file
    /\ data_file' = [data_file EXCEPT !.rows = [k \in 1..Len(data_file.rows) |->
                                                   sort_row_references(data_file.rows[k])]]
    /\ pc' = "sort_done"
    /\ UNCHANGED <<fmt_errors, runVars, graphVars, tagVars, ordVars, dateVars, refVars, valVars>>

NextSort == SortRowReferences

SpecSort == InitSort /\ [][NextSort]_vars

\* how often the text occurs in the slots of the row
Occurrences(row, cols, text) == Cardinality({k \in 1..Len(cols) : row[cols[k]] = text})

\* the slots of one kind after sorting: the references the row held, the
\* non-blank ones first and in the order of their names, then empty slots
SlotsSorted(before, after, cols) ==
    LET k == Len(nonempty(Cells(before, cols)))
        key(c) == lower(parse_reference(after[c])[1])
    IN /\ \A i \in 1..Len(cols) :
              IF i <= k THEN Len(strip(after[cols[i]])) > 0 ELSE after[cols[i]] = ""
       /\ \A i \in 1..Len(cols) :
              Len(strip(before[cols[i]])) > 0 =>
                  Occurrences(after, cols, before[cols[i]])
                      = Occurrences(before, cols, before[cols[i]])
       /\ \A i \in 1..Len(cols) :
              Len(strip(after[cols[i]])) > 0 =>
                  Occurrences(before, cols, after[cols[i]]) > 0
       /\ \A i \in 1..(k - 1) : ~StrLT(key(cols[i + 1]), key(cols[i]))

\* C28: sort_row_references keeps the non-blank references of a row, each
\* as often as it occurred: the person references fill the first person
\* slots without gap in ascending order of their lower-cased names, the
\* other person slots are empty, likewise the event references in the event
\* slots, and every other column is unchanged.
C28_SlotsSorted ==
    pc = "sort_done" =>
        \A r \in 1..Len(data_file.rows) :
            LET before == data_read.rows[r]
                after == data_file.rows[r]
            IN /\ DOMAIN after = DOMAIN before
               /\ SlotsSorted(before, after, person_cols)
               /\ SlotsSorted(before, after, event_cols)
               /\ \A c \in DOMAIN before :
                      (~IsIn(person_cols, c) /\ ~IsIn(event_cols, c)) => after[c] = before[c]

\* a blank slot before two references that were out of order
C28_Witness ==
    /\ pc = "sort_done"
    /\ Cells(data_read.rows[1], person_cols) = <<"  ", "Zed: x", "ann (1~2)", "", "">>
    /\ Cells(data_file.rows[1], person_cols) = <<"ann (1~2)", "Zed: x", "", "", "">>
    /\ Cells(data_read.rows[1], event_cols) = <<"Rome", "Fall (476)", "", "", "">>
    /\ Cells(data_file.rows[1], event_cols) = <<"Fall (476)", "Rome", "", "", "">>


(***************************************************************************)
(* The commands create-person and update-person run one after the other    *)
(* on one database.  A Person node carries the guid it was created with;   *)
(* the commands are run without tags and without other fields than the     *)
(* name.                                                                   *)
(***************************************************************************)

PersonNames == {"Ajax", "ajax", "Hector", "Paris"}

PersonNode(guid, name) == [label |-> "Person", name |-> name, tag |-> None, guid |-> guid]

PersonNodes(nodes) == {n \in nodes : n.label = "Person"}

\* generate_guid(): a guid no node carries
fresh_guid(nodes) ==
    CHOOSE g \in 1..(Cardinality(PersonNodes(nodes)) + 1) :
        \A n \in PersonNodes(nodes) : n.guid # g

\* MATCH (p:Person) WHERE toLower(p.name) = toLower($name) SET p.name = $new_name
renamed(nodes, name, new_name) ==
    {IF n.label = "Person" /\ lower(n.name) = lower(name)
     THEN [n EXCEPT !.name = new_name]
     ELSE n : n \in nodes}

InitPerson ==
    /\ DateIdle
    /\ RefIdle
    /\ ValIdle
    /\ FmtIdle
    /\ GraphIdle
    /\ OrdIdle
    /\ auto_fix = FALSE
    /\ exit_code = None
    /\ pc = "person_start"
    /\ tag_name = None
    /\ entity_tags = <<>>
    /\ db = {}
    /\ validity = None
    /\ stderr = <<>>

\* create-person: create_person(driver, name, ...), a run of its own
CreatePersonNamed ==
    /\ Cardinality(PersonNodes(db)) < MaxPersons
    /\ \E name \in PersonNames :
           IF person_exists(db, name)
           THEN /\ stderr' = <<"Error: Person '" \o name \o "' already exists.">>
                /\ exit_code' = 1
                /\ pc' = "person_exists"
                /\ UNCHANGED db
           ELSE /\ stderr' = <<>>
                /\ db' = db \cup {PersonNode(fresh_guid(db), name)}
                /\ exit_code' = 0
                /\ pc' = "person_created"
    /\ UNCHANGED <<auto_fix, tag_name, entity_tags, validity, fmtVars, graphVars, dateVars, refVars, valVars, ordVars>>

\* update-person: update_person(driver, name, new_name), a run of its own
UpdatePerson ==
    /\ \E name \in PersonNames, new_name \in PersonNames \cup {None} :
           IF ~person_exists(db, name)
           THEN /\ stderr' = <<"Error: Person '" \o name \o "' not found.">>
                /\ exit_code' = 1
                /\ pc' = "person_not_found"
                /\ UNCHANGED db
           ELSE IF new_name = None
           THEN /\ stderr' = <<"No fields to update.">>
                /\ exit_code' = 1
                /\ pc' = "nothing_to_update"
                /\ UNCHANGED db
           ELSE /\ stderr' = <<>>
                /\ db' = renamed(db, name, new_name)
                /\ exit_code' = 0
                /\ pc' = "person_updated"
    /\ UNCHANGED <<auto_fix, tag_name, entity_tags, validity, fmtVars, graphVars, dateVars, refVars, valVars, ordVars>>

NextPerson == CreatePersonNamed \/ UpdatePerson

SpecPerson == InitPerson /\ [][NextPerson]_vars

\* C29: whatever commands have run, no two Person nodes of the database
\* have names that are equal ignoring case.
C29_UniqueNames ==
    \A n, o \in PersonNodes(db) : lower(n.name) = lower(o.name) => n = o


(***************************************************************************)
(* Claims about the rows created for missing entities                      *)
(***************************************************************************)

\* the rows appended to the Person table
Stubs == SubSeq(person_rows, Len(PersonRowsA) + 1, Len(person_rows))

\* the missing_person findings, in their order
MissingFindings == SelectSeq(errors, LAMBDA e : e.error_type = "missing_person")

\* the row a finding asks for: the name and the dates decoded from its reference
StubFor(e) ==
    LET p == parse_reference(e.current_value)
    IN [guid |-> "", name |-> p[1],
        date1 |-> (IF Truthy(p[2]) THEN p[2] ELSE ""),
        date2 |-> (IF Truthy(p[3]) THEN p[3] ELSE "")]

\* the finding is the first one for its name
FirstForName(k) ==
    \A j \in 1..(k - 1) : StubFor(MissingFindings[j]).name # StubFor(MissingFindings[k]).name

=============================================================================
